---- MODULE Spec2Model ----
(***************************************************************************)
(* The LaTeX security / validation pipeline of django-mathinput:           *)
(* mathinput/security.py (pattern registries, sanitize_latex,              *)
(* extract_commands, contains_dangerous_pattern, is_command_allowed) and   *)
(* mathinput/validators.py (MathInputValidator, count_nesting,             *)
(* get_matrix_size).                                                       *)
(*                                                                         *)
(* A Python str is a sequence of one-character strings; the characters are *)
(* ASCII.  A regular expression is a sequence of elements, each matching   *)
(* one character ("one") or a greedy run of characters ("star", "plus") of *)
(* a character class; matching follows the backtracking order of Python's  *)
(* re module (longest run first).                                          *)
(***************************************************************************)
EXTENDS Integers, Sequences, FiniteSets, TLC

VARIABLES
    latex_string,     \* the argument of the call in progress
    max_length,       \* MathInputValidator.max_length
    max_nesting,      \* MathInputValidator.max_nesting
    max_matrix_size,  \* MathInputValidator.max_matrix_size, <<rows, cols>>
    given,            \* the arguments MathInputValidator(...) was constructed with
    pc,               \* position of the call in progress
    result,           \* the str the call returned
    error,            \* the ValidationError the call raised
    flagged,          \* what contains_dangerous_pattern answered
    steps,            \* the checks the call in progress has run, in order
    settings,         \* django.conf.settings: the MATHINPUT_* names that are set
    blocked,          \* the set object BLOCKED_COMMANDS of mathinput.security
    allowed,          \* the set object ALLOWED_COMMANDS of mathinput.security
    calls,            \* the validate calls that run concurrently, each with its locals
    dangerous,        \* the list object DANGEROUS_COMMANDS of mathinput.security
    hash_seed,        \* the str hash seed of the interpreter process, 0 until the
                      \* order of a set of str has shown
    scan              \* the locals of the loop of count_nesting in progress

vars == <<latex_string, max_length, max_nesting, max_matrix_size, given, pc, result, error,
          flagged, steps, settings, blocked, allowed, calls, dangerous, hash_seed, scan>>

----------------------------------------------------------------------------
(* Characters and str methods                                              *)

LowerLetters ==
    {"a","b","c","d","e","f","g","h","i","j","k","l","m",
     "n","o","p","q","r","s","t","u","v","w","x","y","z"}

UpperLetters ==
    {"A","B","C","D","E","F","G","H","I","J","K","L","M",
     "N","O","P","Q","R","S","T","U","V","W","X","Y","Z"}

Letters == LowerLetters \cup UpperLetters

Digits == {"0","1","2","3","4","5","6","7","8","9"}

\* \w of a str pattern
WordChars == Letters \cup Digits \cup {"_"}

\* \s of a str pattern, and what str.strip() removes
Whitespace == {" ", "\t", "\n", "\r", "\f"}

ToLower ==
    ("A" :> "a") @@ ("B" :> "b") @@ ("C" :> "c") @@ ("D" :> "d") @@ ("E" :> "e") @@
    ("F" :> "f") @@ ("G" :> "g") @@ ("H" :> "h") @@ ("I" :> "i") @@ ("J" :> "j") @@
    ("K" :> "k") @@ ("L" :> "l") @@ ("M" :> "m") @@ ("N" :> "n") @@ ("O" :> "o") @@
    ("P" :> "p") @@ ("Q" :> "q") @@ ("R" :> "r") @@ ("S" :> "s") @@ ("T" :> "t") @@
    ("U" :> "u") @@ ("V" :> "v") @@ ("W" :> "w") @@ ("X" :> "x") @@ ("Y" :> "y") @@
    ("Z" :> "z")

ToUpper ==
    ("a" :> "A") @@ ("b" :> "B") @@ ("c" :> "C") @@ ("d" :> "D") @@ ("e" :> "E") @@
    ("f" :> "F") @@ ("g" :> "G") @@ ("h" :> "H") @@ ("i" :> "I") @@ ("j" :> "J") @@
    ("k" :> "K") @@ ("l" :> "L") @@ ("m" :> "M") @@ ("n" :> "N") @@ ("o" :> "O") @@
    ("p" :> "P") @@ ("q" :> "Q") @@ ("r" :> "R") @@ ("s" :> "S") @@ ("t" :> "T") @@
    ("u" :> "U") @@ ("v" :> "V") @@ ("w" :> "W") @@ ("x" :> "X") @@ ("y" :> "Y") @@
    ("z" :> "Z")

LowerChar(c) == IF c \in UpperLetters THEN ToLower[c] ELSE c

UpperChar(c) == IF c \in LowerLetters THEN ToUpper[c] ELSE c

\* str.lower()
lower(s) == [i \in 1..Len(s) |-> LowerChar(s[i])]

RECURSIVE LStripFrom(_, _)
LStripFrom(s, i) ==
    IF i <= Len(s) /\ s[i] \in Whitespace THEN LStripFrom(s, i + 1) ELSE i

RECURSIVE RStripFrom(_, _)
RStripFrom(s, j) ==
    IF j >= 1 /\ s[j] \in Whitespace THEN RStripFrom(s, j - 1) ELSE j

\* str.strip()
strip(s) == SubSeq(s, LStripFrom(s, 1), RStripFrom(s, Len(s)))

\* s[i:i+len(lit)] == lit
StartsAt(s, lit, i) ==
    /\ i + Len(lit) - 1 <= Len(s)
    /\ \A k \in 1..Len(lit) : s[i + k - 1] = lit[k]

RECURSIVE FindFrom(_, _, _)
FindFrom(s, lit, i) ==
    IF i + Len(lit) - 1 > Len(s) THEN 0
    ELSE IF StartsAt(s, lit, i) THEN i
    ELSE FindFrom(s, lit, i + 1)

\* str.find(lit), 1-based; 0 where Python answers -1
find(s, lit) == FindFrom(s, lit, 1)

RECURSIVE CountFrom(_, _, _)
CountFrom(s, lit, i) ==
    LET p == FindFrom(s, lit, i)
    IN  IF p = 0 THEN 0 ELSE 1 + CountFrom(s, lit, p + Len(lit))

\* str.count(lit): non-overlapping occurrences, left to right
count(s, lit) == CountFrom(s, lit, 1)

\* lit in s
Contains(s, lit) == find(s, lit) # 0

\* the object None passed where a str is expected
NoneValue == (0 :> "None")

\* not s, for s a str or None
Falsy(s) == s = <<>> \/ s = NoneValue

RECURSIVE StrOf(_)
\* the characters of s as one string value (an element of a set of names)
StrOf(s) == IF s = <<>> THEN "" ELSE s[1] \o StrOf(Tail(s))

----------------------------------------------------------------------------
(* Regular expressions (the constructs the patterns of the source use)     *)

One(cs) == [kind |-> "one", neg |-> FALSE, chars |-> cs]

\* a literal text: one element per character
Lit(s) == [i \in 1..Len(s) |-> One({s[i]})]

\* \s*
WsStar == <<[kind |-> "star", neg |-> FALSE, chars |-> Whitespace]>>

\* \w+
WordPlus == <<[kind |-> "plus", neg |-> FALSE, chars |-> WordChars]>>

\* [^...]* and [^...]+
NotStar(cs) == <<[kind |-> "star", neg |-> TRUE, chars |-> cs]>>

NotPlus(cs) == <<[kind |-> "plus", neg |-> TRUE, chars |-> cs]>>

\* [...]
Class(cs) == <<One(cs)>>

\* whether character c matches element el; ic is re.IGNORECASE
InClass(c, el, ic) ==
    IF el.neg THEN c \notin el.chars
    ELSE \/ c \in el.chars
         \/ ic /\ (LowerChar(c) \in el.chars \/ UpperChar(c) \in el.chars)

SetMin(S) == CHOOSE x \in S : \A y \in S : x <= y

SetMax(S) == CHOOSE x \in S : \A y \in S : x >= y

\* the number of consecutive characters of s from i that match el
Run(el, s, i, ic) ==
    LET stops == {j \in i..Len(s) : ~InClass(s[j], el, ic)}
    IN  IF stops = {} THEN Len(s) + 1 - i ELSE SetMin(stops) - i

RECURSIVE MatchFrom(_, _, _, _, _)
\* the index after the match of pat[k..] at s[i..], 0 when there is none;
\* a greedy run gives back one character at a time, so the longest run after
\* which the rest of the pattern matches is the one taken
MatchFrom(pat, k, s, i, ic) ==
    IF k > Len(pat) THEN i
    ELSE IF pat[k].kind = "one"
         THEN IF i <= Len(s) /\ InClass(s[i], pat[k], ic)
              THEN MatchFrom(pat, k + 1, s, i + 1, ic)
              ELSE 0
         ELSE LET least == IF pat[k].kind = "plus" THEN 1 ELSE 0
                  taken == {m \in least..Run(pat[k], s, i, ic) :
                                MatchFrom(pat, k + 1, s, i + m, ic) # 0}
              IN  IF taken = {} THEN 0
                  ELSE MatchFrom(pat, k + 1, s, i + SetMax(taken), ic)

\* re.search from index i: <<start, end>> of the leftmost match, <<0, 0>> for None
SearchFrom(pat, s, i, ic) ==
    LET starts == {j \in i..Len(s) : MatchFrom(pat, 1, s, j, ic) # 0}
    IN  IF starts = {} THEN <<0, 0>>
        ELSE <<SetMin(starts), MatchFrom(pat, 1, s, SetMin(starts), ic)>>

re_search(pat, s, ic) == \E j \in 1..Len(s) : MatchFrom(pat, 1, s, j, ic) # 0

RECURSIVE SubFrom(_, _, _, _)
SubFrom(pat, s, i, ic) ==
    LET m == SearchFrom(pat, s, i, ic)
    IN  IF m[1] = 0 THEN SubSeq(s, i, Len(s))
        ELSE SubSeq(s, i, m[1] - 1) \o SubFrom(pat, s, m[2], ic)

RECURSIVE SubBlankFrom(_, _, _, _)
SubBlankFrom(pat, s, i, ic) ==
    LET m == SearchFrom(pat, s, i, ic)
    IN  IF m[1] = 0 THEN SubSeq(s, i, Len(s))
        ELSE SubSeq(s, i, m[1] - 1) \o <<" ">> \o SubBlankFrom(pat, s, m[2], ic)

\* re.sub(pat, ' ', s): every match replaced by a blank
re_sub_blank(pat, s, ic) == SubBlankFrom(pat, s, 1, ic)

\* re.sub(pat, '', s): every non-overlapping match, left to right, removed
re_sub(pat, s, ic) == SubFrom(pat, s, 1, ic)

----------------------------------------------------------------------------
(* mathinput/security.py                                                   *)

Brace == Lit(<<"{">>)

\* the 24 regular expressions of DANGEROUS_COMMANDS, in the order of the list
DANGEROUS_COMMANDS == <<
    Lit(<<"\\","i","n","p","u","t">>) \o WsStar \o Brace,
    Lit(<<"\\","i","n","c","l","u","d","e">>) \o WsStar \o Brace,
    Lit(<<"\\","v","e","r","b","a","t","i","m","i","n","p","u","t">>) \o WsStar \o Brace,
    Lit(<<"\\","l","s","t","i","n","p","u","t","l","i","s","t","i","n","g">>) \o WsStar \o Brace,
    Lit(<<"\\","w","r","i","t","e","1","8">>) \o WsStar \o Brace,
    Lit(<<"\\","d","e","f">>) \o WsStar,
    Lit(<<"\\","n","e","w","c","o","m","m","a","n","d">>) \o WsStar \o Brace,
    Lit(<<"\\","r","e","n","e","w","c","o","m","m","a","n","d">>) \o WsStar \o Brace,
    Lit(<<"\\","p","r","o","v","i","d","e","c","o","m","m","a","n","d">>) \o WsStar \o Brace,
    Lit(<<"\\","u","s","e","p","a","c","k","a","g","e">>) \o WsStar \o Brace,
    Lit(<<"\\","R","e","q","u","i","r","e","P","a","c","k","a","g","e">>) \o WsStar \o Brace,
    Lit(<<"\\","d","o","c","u","m","e","n","t","c","l","a","s","s">>) \o WsStar \o Brace,
    Lit(<<"\\","c","a","t","c","o","d","e">>) \o WsStar,
    Lit(<<"\\","m","a","k","e","a","t","l","e","t","t","e","r">>),
    Lit(<<"\\","m","a","k","e","a","t","o","t","h","e","r">>),
    Lit(<<"\\","h","r","e","f">>) \o WsStar \o Brace \o NotStar({"}"})
        \o Lit(<<"j","a","v","a","s","c","r","i","p","t",":">>),
    Lit(<<"j","a","v","a","s","c","r","i","p","t",":">>),
    Lit(<<"<","s","c","r","i","p","t">>),
    Lit(<<"<","/","s","c","r","i","p","t",">">>),
    Lit(<<"<","i","f","r","a","m","e">>),
    Lit(<<"o","n","e","r","r","o","r">>) \o WsStar \o Lit(<<"=">>),
    Lit(<<"o","n","c","l","i","c","k">>) \o WsStar \o Lit(<<"=">>),
    Lit(<<"o","n","l","o","a","d">>) \o WsStar \o Lit(<<"=">>),
    Lit(<<"o","n","m","o","u","s","e","o","v","e","r">>) \o WsStar \o Lit(<<"=">>) >>

\* the set literal BLOCKED_COMMANDS is bound to when the module is loaded
BLOCKED_COMMANDS == {
    "input", "include", "write18", "def", "newcommand", "renewcommand",
    "providecommand", "verbatiminput", "lstinputlisting", "catcode",
    "makeatletter", "makeatother", "usepackage", "RequirePackage",
    "documentclass", "href" }

\* the set literal ALLOWED_COMMANDS is bound to when the module is loaded
ALLOWED_COMMANDS == {
    "frac", "sqrt", "root", "sum", "int", "prod", "lim", "inf",
    "sin", "cos", "tan", "sec", "csc", "cot",
    "arcsin", "arccos", "arctan", "arcsec", "arccsc", "arccot",
    "sinh", "cosh", "tanh", "sech", "csch", "coth",
    "log", "ln", "exp", "lg",
    "mathbf", "mathit", "mathrm", "mathsf", "mathtt", "mathcal",
    "mathbb", "mathfrak", "mathscr",
    "text", "textbf", "textit", "textsf", "texttt", "textsc",
    "emph", "underline", "overline",
    "begin", "end",
    "matrix", "pmatrix", "bmatrix", "Bmatrix", "vmatrix", "Vmatrix",
    "array", "cases", "align", "aligned", "eqnarray", "equation",
    "split", "multline", "gather", "gathered",
    "partial", "nabla", "Delta",
    "cdot", "times", "div", "pm", "mp",
    "leq", "geq", "neq", "approx", "equiv", "sim",
    "in", "notin", "subset", "supset", "subseteq", "supseteq",
    "cup", "cap", "setminus", "emptyset",
    "forall", "exists", "nexists",
    "alpha", "beta", "gamma", "delta", "epsilon", "varepsilon",
    "zeta", "eta", "theta", "vartheta", "iota", "kappa",
    "lambda", "mu", "nu", "xi", "pi", "varpi", "rho", "varrho",
    "sigma", "varsigma", "tau", "upsilon", "phi", "varphi",
    "chi", "psi", "omega",
    "Gamma", "Theta", "Lambda", "Xi", "Pi", "Sigma",
    "Upsilon", "Phi", "Psi", "Omega",
    "infty", "varnothing",
    "ell", "hbar", "imath", "jmath",
    "^", "_",
    "quad", "qquad", "hspace", "vspace", "thinspace", "medspace",
    "thickspace", "negthinspace", "negmedspace", "negthickspace",
    "left", "right", "big", "Big", "bigg", "Bigg",
    "hat", "check", "breve", "acute", "grave", "tilde", "bar",
    "vec", "dot", "ddot", "dddot", "ddddot",
    "color", "textcolor", "colorbox", "fcolorbox",
    "label", "ref", "eqref", "tag",
    "not", "neg",
    "prime", "backprime",
    "ldots", "cdots", "vdots", "ddots",
    "angle", "measuredangle", "sphericalangle",
    "parallel", "nparallel", "perp",
    "propto", "asymp" }

\* \\href\s*\{[^}]*javascript:[^}]*\}
HrefJavascriptPattern ==
    Lit(<<"\\","h","r","e","f">>) \o WsStar \o Brace \o NotStar({"}"})
        \o Lit(<<"j","a","v","a","s","c","r","i","p","t",":">>)
        \o NotStar({"}"}) \o Lit(<<"}">>)

\* \\href\s*\{[^}]*javascript:
HrefScanPattern ==
    Lit(<<"\\","h","r","e","f">>) \o WsStar \o Brace \o NotStar({"}"})
        \o Lit(<<"j","a","v","a","s","c","r","i","p","t",":">>)

\* <[^>]+>
HtmlTagPattern == Lit(<<"<">>) \o NotPlus({">"}) \o Lit(<<">">>)

\* \s*(on\w+)\s*=\s*["\'][^"\']*["\']
EventHandlerPattern ==
    WsStar \o Lit(<<"o","n">>) \o WordPlus \o WsStar \o Lit(<<"=">>) \o WsStar
        \o Class({"\"", "'"}) \o NotStar({"\"", "'"}) \o Class({"\"", "'"})

\* the pattern with whitespace required before the name: \s+(on\w+)\s*=
EventScanPatternAfterSpace ==
    <<[kind |-> "plus", neg |-> FALSE, chars |-> Whitespace]>>
        \o Lit(<<"o","n">>) \o WordPlus \o WsStar \o Lit(<<"=">>)

\* \s*(on\w+)\s*=
EventScanPattern == WsStar \o Lit(<<"o","n">>) \o WordPlus \o WsStar \o Lit(<<"=">>)

RECURSIVE RemoveDangerousBackwards(_, _)
\* the loop run from the last pattern of DANGEROUS_COMMANDS to the first
RemoveDangerousBackwards(s, k) ==
    IF s = <<>> \/ k > Len(dangerous) THEN s
    ELSE RemoveDangerousBackwards(
             re_sub(dangerous[Len(dangerous) + 1 - k], s, TRUE), k + 1)

RECURSIVE RemoveDangerous(_, _)
\* the loop of sanitize_latex over DANGEROUS_COMMANDS, from pattern k on
RemoveDangerous(s, k) ==
    IF s = <<>> \/ k > Len(dangerous) THEN s  \* '' has no match left
    ELSE RemoveDangerous(re_sub(dangerous[k], s, TRUE), k + 1)

\* the sanitizer with a last pass that removes every '<'
sanitize_latex_every_bracket(s) ==
    IF Falsy(s) THEN <<>>
    ELSE LET r1 == RemoveDangerous(s, 1)
             r2 == re_sub(HrefJavascriptPattern, r1, TRUE)
             r3 == re_sub(HtmlTagPattern, r2, FALSE)
             r4 == re_sub(EventHandlerPattern, r3, TRUE)
         IN  re_sub(Lit(<<"<">>), r4, FALSE)

sanitize_latex(s) ==
    IF Falsy(s) THEN <<>>
    ELSE LET r1 == RemoveDangerous(s, 1)
             r2 == re_sub(HrefJavascriptPattern, r1, TRUE)
             r3 == re_sub(HtmlTagPattern, r2, FALSE)
         IN  re_sub(EventHandlerPattern, r3, TRUE)

\* two of the values of the hash seed of a process, which fixes the order in
\* which the process iterates a set of str
HashSeeds == {1, 2}

RECURSIVE ListOf(_)
\* the elements of S one after another
ListOf(S) ==
    IF S = {} THEN <<>>
    ELSE LET x == CHOOSE x \in S : TRUE IN <<x>> \o ListOf(S \ {x})

\* the seeds the process may have when it iterates the set S of str: the seed it
\* has shown before, and any seed when S is the first set whose order shows
SeedsFor(S) ==
    IF hash_seed # 0 THEN {hash_seed}
    ELSE IF Cardinality(S) < 2 THEN {0}
    ELSE HashSeeds

\* list(S) for a set of str in a process with that hash seed
list_of_set(seed, S) ==
    IF seed = 1 THEN ListOf(S)
    ELSE [i \in 1..Len(ListOf(S)) |-> ListOf(S)[Len(ListOf(S)) + 1 - i]]

RECURSIVE CommandsFromLowercase(_, _)
\* the names found with the pattern \\([a-z]+)
CommandsFromLowercase(s, i) ==
    IF i >= Len(s) THEN {}
    ELSE IF s[i] = "\\" /\ s[i + 1] \in LowerLetters
         THEN LET n == Run(One(LowerLetters), s, i + 1, FALSE)
              IN  {SubSeq(s, i + 1, i + n)} \cup CommandsFromLowercase(s, i + 1 + n)
         ELSE CommandsFromLowercase(s, i + 1)

RECURSIVE CommandsFrom(_, _)
\* re.findall(r'\\([a-zA-Z]+)', s) from index i on, as a set of names
CommandsFrom(s, i) ==
    IF i >= Len(s) THEN {}
    ELSE IF s[i] = "\\" /\ s[i + 1] \in Letters
         THEN LET n == Run(One(Letters), s, i + 1, FALSE)
              IN  {SubSeq(s, i + 1, i + n)} \cup CommandsFrom(s, i + 1 + n)
         ELSE CommandsFrom(s, i + 1)

\* the elements of the list extract_commands returns (a list made from a set)
extract_commands(s) == IF Falsy(s) THEN {} ELSE CommandsFrom(s, 1)

\* the patterns searched without re.IGNORECASE
MatchesDangerousCommandCaseSensitive(s) ==
    \E k \in 1..Len(dangerous) : re_search(dangerous[k], s, FALSE)

MatchesDangerousCommand(s) ==
    \E k \in 1..Len(dangerous) : re_search(dangerous[k], s, TRUE)

contains_dangerous_pattern(s) ==
    IF Falsy(s) THEN FALSE
    ELSE \/ MatchesDangerousCommand(s)
         \/ re_search(HrefScanPattern, s, TRUE)
         \/ re_search(HtmlTagPattern, s, FALSE)
         \/ re_search(EventScanPattern, s, TRUE)

\* the whitelist looked at first, the block list only for names not in it
is_command_allowed_whitelist_first(command) ==
    IF Falsy(command) THEN FALSE
    ELSE LET name == StrOf(strip(lower(command)))
         IN  IF name \in allowed THEN TRUE
             ELSE FALSE

is_command_allowed(command) ==
    IF Falsy(command) THEN FALSE
    ELSE LET name == StrOf(strip(lower(command)))
         IN  IF name \in blocked THEN FALSE
             ELSE name \in allowed

----------------------------------------------------------------------------
(* mathinput/validators.py                                                 *)

\* getattr(settings, name, default)
_get_setting(name, default) ==
    IF name \in DOMAIN settings THEN settings[name] ELSE default

MAX_FORMULA_LENGTH == _get_setting("MATHINPUT_MAX_FORMULA_LENGTH", 10000)

MAX_NESTING_DEPTH == _get_setting("MATHINPUT_MAX_NESTING_DEPTH", 50)

MAX_MATRIX_SIZE == _get_setting("MATHINPUT_MAX_MATRIX_SIZE", <<100, 100>>)

Openers == {"{", "(", "["}

Closers == {"}", ")", "]"}

OpenerOf == ("}" :> "{") @@ (")" :> "(") @@ ("]" :> "[")

Max(a, b) == IF a >= b THEN a ELSE b

\* an iteration that does not skip the character after a backslash
ScanStepNoSkip(s, st) ==
    LET char == s[st.i]
    IN  IF char \in Openers
        THEN [i |-> st.i + 1,
              current_depth |-> st.current_depth + 1,
              max_depth |-> Max(st.max_depth, st.current_depth + 1),
              brace_stack |-> Append(st.brace_stack, char)]
        ELSE IF char \in Closers
        THEN IF /\ st.brace_stack # <<>>
                /\ st.brace_stack[Len(st.brace_stack)] = OpenerOf[char]
             THEN [st EXCEPT !.i = st.i + 1,
                             !.current_depth = st.current_depth - 1,
                             !.brace_stack = SubSeq(st.brace_stack, 1, Len(st.brace_stack) - 1)]
             ELSE [st EXCEPT !.i = st.i + 1]
        ELSE [st EXCEPT !.i = st.i + 1]

\* an iteration that skips two characters after a backslash
ScanStepSkipsTwo(s, st) ==
    LET char == s[st.i]
    IN  IF char \in Openers
        THEN [i |-> st.i + 1,
              current_depth |-> st.current_depth + 1,
              max_depth |-> Max(st.max_depth, st.current_depth + 1),
              brace_stack |-> Append(st.brace_stack, char)]
        ELSE IF char \in Closers
        THEN IF /\ st.brace_stack # <<>>
                /\ st.brace_stack[Len(st.brace_stack)] = OpenerOf[char]
             THEN [st EXCEPT !.i = st.i + 1,
                             !.current_depth = st.current_depth - 1,
                             !.brace_stack = SubSeq(st.brace_stack, 1, Len(st.brace_stack) - 1)]
             ELSE [st EXCEPT !.i = st.i + 1]
        ELSE IF char = "\\"
        THEN [st EXCEPT !.i = st.i + 3]
        ELSE [st EXCEPT !.i = st.i + 1]

\* an iteration in which every closing bracket takes one off the depth
ScanStepAnyCloser(s, st) ==
    LET char == s[st.i]
    IN  IF char \in Openers
        THEN [i |-> st.i + 1,
              current_depth |-> st.current_depth + 1,
              max_depth |-> Max(st.max_depth, st.current_depth + 1),
              brace_stack |-> Append(st.brace_stack, char)]
        ELSE IF char \in Closers
        THEN IF st.brace_stack # <<>>
             THEN [st EXCEPT !.i = st.i + 1,
                             !.current_depth = st.current_depth - 1,
                             !.brace_stack = SubSeq(st.brace_stack, 1, Len(st.brace_stack) - 1)]
             ELSE [st EXCEPT !.i = st.i + 1, !.current_depth = st.current_depth - 1]
        ELSE IF char = "\\" /\ st.i + 1 <= Len(s)
        THEN [st EXCEPT !.i = st.i + 2]
        ELSE [st EXCEPT !.i = st.i + 1]

\* one iteration of the while loop of count_nesting on scan state
\* st = [i, current_depth, max_depth, brace_stack] (i is 1-based)
ScanStep(s, st) ==
    LET char == s[st.i]
    IN  IF char \in Openers
        THEN [i |-> st.i + 1,
              current_depth |-> st.current_depth + 1,
              max_depth |-> Max(st.max_depth, st.current_depth + 1),
              brace_stack |-> Append(st.brace_stack, char)]
        ELSE IF char \in Closers
        THEN IF /\ st.brace_stack # <<>>
                /\ st.brace_stack[Len(st.brace_stack)] = OpenerOf[char]
             THEN [st EXCEPT !.i = st.i + 1,
                             !.current_depth = st.current_depth - 1,
                             !.brace_stack = SubSeq(st.brace_stack, 1, Len(st.brace_stack) - 1)]
             ELSE [st EXCEPT !.i = st.i + 1]
        ELSE IF char = "\\" /\ st.i + 1 <= Len(s)
        THEN [st EXCEPT !.i = st.i + 2]
        ELSE [st EXCEPT !.i = st.i + 1]

ScanStart == [i |-> 1, current_depth |-> 0, max_depth |-> 0, brace_stack |-> <<>>]

RECURSIVE ScanLoop(_, _)
ScanLoop(s, st) == IF st.i > Len(s) THEN st ELSE ScanLoop(s, ScanStep(s, st))

count_nesting(s) == IF Falsy(s) THEN 0 ELSE ScanLoop(s, ScanStart).max_depth

\* the environment names of matrix_patterns, in the order of the list
MatrixNames == <<
    <<"m","a","t","r","i","x">>,
    <<"p","m","a","t","r","i","x">>,
    <<"b","m","a","t","r","i","x">>,
    <<"B","m","a","t","r","i","x">>,
    <<"v","m","a","t","r","i","x">>,
    <<"V","m","a","t","r","i","x">>,
    <<"a","r","r","a","y">> >>

\* \\begin\{name\}
BeginPattern(name) == Lit(<<"\\","b","e","g","i","n","{">> \o name \o <<"}">>)

\* pattern.replace('\\begin', '\\end')
EndPattern(name) == Lit(<<"\\","e","n","d","{">> \o name \o <<"}">>)

RowSeparator == <<"\\", "\\">>

\* rows counted as in the code, cols as the most columns of any row
MatrixExtentWidestRow(matrix_content) ==
    LET rows == IF strip(matrix_content) = <<>> THEN 0
                ELSE count(matrix_content, RowSeparator) + 1
        cols == IF strip(matrix_content) = <<>> THEN 0
                ELSE count(matrix_content, <<"&">>) + 1
    IN  <<rows, cols>>

\* rows and cols of the text between an opener and its closer
MatrixExtent(matrix_content) ==
    LET rows == IF strip(matrix_content) = <<>> THEN 0
                ELSE count(matrix_content, RowSeparator) + 1
        first_row_end == find(matrix_content, RowSeparator)
        first_row == IF first_row_end = 0 THEN matrix_content
                     ELSE SubSeq(matrix_content, 1, first_row_end - 1)
        cols == IF strip(first_row) = <<>> THEN 0
                ELSE count(first_row, <<"&">>) + 1
    IN  <<rows, cols>>

NoMatrix == <<>>

RECURSIVE MatrixFromStopAtBlank(_, _)
\* the loop ended with None by the first environment found without a size
MatrixFromStopAtBlank(s, k) ==
    IF k > Len(MatrixNames) THEN NoMatrix
    ELSE LET match == SearchFrom(BeginPattern(MatrixNames[k]), s, 1, TRUE)
             start_pos == match[2]
             rest == SubSeq(s, start_pos, Len(s))
             end_match == SearchFrom(EndPattern(MatrixNames[k]), rest, 1, TRUE)
             size == MatrixExtent(SubSeq(rest, 1, end_match[1] - 1))
         IN  IF match[1] # 0 /\ end_match[1] # 0
             THEN IF size[1] > 0 /\ size[2] > 0 THEN size ELSE NoMatrix
             ELSE MatrixFromStopAtBlank(s, k + 1)

RECURSIVE MatrixFromBackwards(_, _)
\* the loop run from the last name of matrix_patterns to the first
MatrixFromBackwards(s, k) ==
    IF k > Len(MatrixNames) THEN NoMatrix
    ELSE LET name == MatrixNames[Len(MatrixNames) + 1 - k]
             match == SearchFrom(BeginPattern(name), s, 1, TRUE)
             start_pos == match[2]
             rest == SubSeq(s, start_pos, Len(s))
             end_match == SearchFrom(EndPattern(name), rest, 1, TRUE)
             size == MatrixExtent(SubSeq(rest, 1, end_match[1] - 1))
         IN  IF match[1] # 0 /\ end_match[1] # 0 /\ size[1] > 0 /\ size[2] > 0
             THEN size
             ELSE MatrixFromBackwards(s, k + 1)

RECURSIVE MatrixFrom(_, _)
\* the loop of get_matrix_size over matrix_patterns, from pattern k on
MatrixFrom(s, k) ==
    IF k > Len(MatrixNames) THEN NoMatrix
    ELSE LET match == SearchFrom(BeginPattern(MatrixNames[k]), s, 1, TRUE)
             start_pos == match[2]
             rest == SubSeq(s, start_pos, Len(s))
             end_match == SearchFrom(EndPattern(MatrixNames[k]), rest, 1, TRUE)
             size == MatrixExtent(SubSeq(rest, 1, end_match[1] - 1))
         IN  IF match[1] # 0 /\ end_match[1] # 0 /\ size[1] > 0 /\ size[2] > 0
             THEN size
             ELSE MatrixFrom(s, k + 1)

\* <<rows, cols>>, or NoMatrix for None
get_matrix_size(s) == IF Falsy(s) THEN NoMatrix ELSE MatrixFrom(s, 1)

\* a run of validate_complexity: the issues appended and the checks run so far
NoIssues == [issues |-> <<>>, steps |-> <<>>]

\* the issue put in front of the list instead of at its end
CheckedInFront(run, step, fails, issue) ==
    [issues |-> IF fails THEN <<issue>> \o run.issues ELSE run.issues,
     steps |-> Append(run.steps, step)]

\* a check run only while no issue has been found
CheckedUntilFirst(run, step, fails, issue) ==
    IF run.issues # <<>> THEN run
    ELSE [issues |-> IF fails THEN Append(run.issues, issue) ELSE run.issues,
          steps |-> Append(run.steps, step)]

Checked(run, step, fails, issue) ==
    [issues |-> IF fails THEN Append(run.issues, issue) ELSE run.issues,
     steps |-> Append(run.steps, step)]

\* the five checks of validate_complexity, each run whatever the others found
ComplexityRun(s) ==
    LET r1 == Checked(NoIssues, "length", Len(s) > MAX_FORMULA_LENGTH,
                      [kind |-> "TooLong", max |-> MAX_FORMULA_LENGTH, got |-> Len(s)])
        r2 == Checked(r1, "pattern", contains_dangerous_pattern(s),
                      [kind |-> "UnsafeContent"])
        blocked_commands == {cmd \in extract_commands(s) : ~is_command_allowed(cmd)}
        r3 == Checked(r2, "commands", blocked_commands # {},
                      [kind |-> "DisallowedCommands", commands |-> blocked_commands])
        nesting_depth == count_nesting(s)
        r4 == Checked(r3, "nesting", nesting_depth > MAX_NESTING_DEPTH,
                      [kind |-> "TooDeeplyNested", max |-> MAX_NESTING_DEPTH,
                       got |-> nesting_depth])
        matrix_size == get_matrix_size(s)
    IN  Checked(r4, "matrix",
                /\ matrix_size # NoMatrix
                /\ \/ matrix_size[1] > MAX_MATRIX_SIZE[1]
                   \/ matrix_size[2] > MAX_MATRIX_SIZE[2],
                [kind |-> "MatrixTooLarge", max |-> MAX_MATRIX_SIZE, got |-> matrix_size])

\* <<is_valid, issues>>
validate_complexity(s) ==
    IF Falsy(s) THEN <<TRUE, <<>>>>
    ELSE <<ComplexityRun(s).issues = <<>>, ComplexityRun(s).issues>>

----------------------------------------------------------------------------
(* MathInputValidator                                                      *)

\* an optional argument: None, or the value passed
None == {}

Some(v) == {v}

ValueOf(arg) == CHOOSE v \in arg : TRUE

\* arg or default, for an int argument (0 is falsy)
IntOr(arg, default) ==
    IF arg = None \/ ValueOf(arg) = 0 THEN default ELSE ValueOf(arg)

\* arg or default, for a tuple argument (only () is falsy)
TupleOr(arg, default) ==
    IF arg = None \/ ValueOf(arg) = <<>> THEN default ELSE ValueOf(arg)

NoError == [kind |-> "none"]

\* the modules as loaded under a configuration: the settings that are set, and
\* the two command sets as their literals give them
NoSettings == [name \in {} |-> 0]

Loaded(conf) ==
    /\ settings = conf
    /\ blocked = BLOCKED_COMMANDS
    /\ allowed = ALLOWED_COMMANDS
    /\ dangerous = DANGEROUS_COMMANDS
    /\ hash_seed = 0

\* MathInputValidator.__init__
Constructed(a_length, a_nesting, a_matrix) ==
    /\ given = [max_length |-> a_length, max_nesting |-> a_nesting,
                max_matrix_size |-> a_matrix]
    /\ max_length = IntOr(a_length, MAX_FORMULA_LENGTH)
    /\ max_nesting = IntOr(a_nesting, MAX_NESTING_DEPTH)
    /\ max_matrix_size = TupleOr(a_matrix, MAX_MATRIX_SIZE)

\* a call with argument formula is about to start at label
Called(formula, label) ==
    /\ latex_string = formula
    /\ pc = label
    /\ result = <<>>
    /\ error = NoError
    /\ flagged = FALSE
    /\ steps = <<>>
    /\ calls = <<>>
    /\ scan = ScanStart

\* the call in progress runs one more of its checks
Ran(step) == steps' = Append(steps, step)

Raise(e) ==
    /\ pc' = "raised"
    /\ error' = e
    /\ UNCHANGED <<latex_string, max_length, max_nesting, max_matrix_size, given,
                   settings, blocked, allowed, calls,
                   result, flagged,
                   dangerous, scan>>

Return(v) ==
    /\ pc' = "returned"
    /\ result' = v
    /\ UNCHANGED <<latex_string, max_length, max_nesting, max_matrix_size, given,
                   settings, blocked, allowed, calls,
                   error, flagged,
                   dangerous, scan>>

Goto(label) ==
    /\ pc' = label
    /\ UNCHANGED <<latex_string, max_length, max_nesting, max_matrix_size, given,
                   settings, blocked, allowed, calls,
                   result, error, flagged,
                   dangerous, scan>>

\* the empty check made with latex_string == ''
CheckEmptyStr ==
    /\ pc = "validate"
    /\ IF latex_string = <<>> THEN Return(<<>>) ELSE Goto("length")
    /\ UNCHANGED steps
    /\ UNCHANGED hash_seed

\* if not latex_string: return ''
CheckEmpty ==
    /\ pc = "validate"
    /\ IF Falsy(latex_string) THEN Return(<<>>) ELSE Goto("length")
    /\ UNCHANGED steps
    /\ UNCHANGED hash_seed

\* the length limit taken as exclusive
TooLongInclusive(s) == Len(s) >= max_length

\* 1. Length check
TooLong(s) == Len(s) > max_length

\* the dangerous-pattern check made ahead of the length check
CheckLengthAfterPattern ==
    /\ pc = "length"
    /\ IF contains_dangerous_pattern(latex_string)
       THEN Raise([kind |-> "UnsafeContent"])
       ELSE IF TooLong(latex_string)
       THEN Raise([kind |-> "TooLong", max |-> max_length, got |-> Len(latex_string)])
       ELSE Goto("pattern")
    /\ Ran("length")
    /\ UNCHANGED hash_seed

CheckLength ==
    /\ pc = "length"
    /\ IF TooLong(latex_string)
       THEN Raise([kind |-> "TooLong", max |-> max_length, got |-> Len(latex_string)])
       ELSE Goto("pattern")
    /\ Ran("length")
    /\ UNCHANGED hash_seed

\* 2. Dangerous pattern check
CheckPattern ==
    /\ pc = "pattern"
    /\ IF contains_dangerous_pattern(latex_string)
       THEN Raise([kind |-> "UnsafeContent"])
       ELSE Goto("commands")
    /\ Ran("pattern")
    /\ UNCHANGED hash_seed

\* the names looked up in BLOCKED_COMMANDS alone, the whitelist forgotten
BlockedByBlocklistOnly(s) ==
    {cmd \in extract_commands(s) : StrOf(strip(lower(cmd))) \in blocked}

\* 3. Command whitelist validation
BlockedCommands(s) == {cmd \in extract_commands(s) : ~is_command_allowed(cmd)}

CheckCommands ==
    /\ pc = "commands"
    /\ IF BlockedCommands(latex_string) # {}
       THEN \E seed \in SeedsFor(BlockedCommands(latex_string)) :
               /\ hash_seed' = seed
               /\ Raise([kind |-> "DisallowedCommands",
                         commands |-> BlockedCommands(latex_string),
                         listed |-> list_of_set(seed, BlockedCommands(latex_string))])
       ELSE Goto("nesting") /\ UNCHANGED hash_seed
    /\ Ran("commands")

\* the nesting limit taken as exclusive
TooDeepInclusive(s) == count_nesting(s) >= max_nesting

\* 4. Complexity checks
TooDeep(s) == count_nesting(s) > max_nesting

CheckNesting ==
    /\ pc = "nesting"
    /\ IF TooDeep(latex_string)
       THEN Raise([kind |-> "TooDeeplyNested", max |-> max_nesting,
                   got |-> count_nesting(latex_string)])
       ELSE Goto("matrix")
    /\ Ran("nesting")
    /\ UNCHANGED hash_seed

\* a matrix rejected only when both extents exceed their limits
MatrixTooLargeBoth(matrix_size) ==
    /\ matrix_size # <<>>
    /\ matrix_size[1] > max_matrix_size[1]
    /\ matrix_size[2] > max_matrix_size[2]

\* 5. Matrix size check
MatrixTooLarge(matrix_size) ==
    /\ matrix_size # <<>>
    /\ \/ matrix_size[1] > max_matrix_size[1]
       \/ matrix_size[2] > max_matrix_size[2]

CheckMatrix ==
    /\ pc = "matrix"
    /\ IF MatrixTooLarge(get_matrix_size(latex_string))
       THEN Raise([kind |-> "MatrixTooLarge", max |-> max_matrix_size,
                   got |-> get_matrix_size(latex_string)])
       ELSE Goto("sanitize")
    /\ Ran("matrix")
    /\ UNCHANGED hash_seed

\* the sanitized text dropped: the call returns an empty value
ReturnsEmpty(s) == <<>>

\* 6. Sanitize and return
Sanitized(s) == sanitize_latex(s)

SanitizeAndReturn ==
    /\ pc = "sanitize"
    /\ Return(Sanitized(latex_string))
    /\ Ran("sanitize")
    /\ UNCHANGED hash_seed

----------------------------------------------------------------------------
(* The formulas and limits of the checked calls                            *)

RECURSIVE Flatten(_)
Flatten(cs) == IF cs = <<>> THEN <<>> ELSE cs[1] \o Flatten(Tail(cs))

\* the strings made of at most n of the pieces
Pieced(pieces, n) ==
    {Flatten(cs) : cs \in UNION {[1..k -> pieces] : k \in 0..n}}

MaxChunks == 3

\* pieces that make every check of validate fail, alone and together
Chunks == {
    <<"x">>,
    <<"<","s","C","r","i","p","t">>,
    <<"\\","i","n","p","u","t">>,
    <<"\\","f","o","o">>,
    <<"{">>,
    <<"\\","b","e","g","i","n","{","m","a","t","r","i","x","}">>,
    <<"\\","e","n","d","{","m","a","t","r","i","x","}">>,
    <<"&">>,
    <<"(","\\","\\">> }

LengthArgs == {None, Some(3)}

NestingArgs == {None, Some(1)}

MatrixArgs == {None, Some(<<1, 1>>)}

Init ==
    \E formula \in Pieced(Chunks, MaxChunks), a_length \in LengthArgs,
       a_nesting \in NestingArgs, a_matrix \in MatrixArgs :
        /\ Loaded(NoSettings)
        /\ Constructed(a_length, a_nesting, a_matrix)
        /\ Called(formula, "validate")

Next ==
    \/ CheckEmpty
    \/ CheckLength
    \/ CheckPattern
    \/ CheckCommands
    \/ CheckNesting
    \/ CheckMatrix
    \/ SanitizeAndReturn

\* validate(formula) on a MathInputValidator with chosen limits
Spec == Init /\ [][Next]_vars

\* pieces of '<script' and 'javascript:' in mixed case
ScriptChunks == {
    <<"x">>,
    <<"\\","f","r","a","c">>,
    <<"<","s","c">>,
    <<"R","I","p","t">>,
    <<"<","S","C","R","I","P","T">>,
    <<"j","a","v","a">>,
    <<"S","c","r","i","p","t",":">> }

ScriptLengthArgs == {None, Some(8)}

InitScript ==
    \E formula \in Pieced(ScriptChunks, MaxChunks), a_length \in ScriptLengthArgs :
        /\ Loaded(NoSettings)
        /\ Constructed(a_length, None, None)
        /\ Called(formula, "validate")

\* validate(formula) on formulas with script content
SpecScript == InitScript /\ [][Next]_vars

\* pieces of assignments to a name that starts with 'on', alone, inside an
\* identifier and after a command name
EventChunks == {
    <<"o","n">>,
    <<"o","n","x">>,
    <<"O","n","1","_">>,
    <<"c">>,
    <<"\\","f","r","a","c">>,
    <<" ">>,
    <<"=">>,
    <<"1">> }

EventLengthArgs == {None, Some(4)}

InitEvent ==
    \E formula \in Pieced(EventChunks, MaxChunks), a_length \in EventLengthArgs :
        /\ Loaded(NoSettings)
        /\ Constructed(a_length, None, None)
        /\ Called(formula, "validate")

\* validate(formula) on formulas with assignments to event-handler names
SpecEvent == InitEvent /\ [][Next]_vars

\* \begin{name}content\end{name}
Environment(name, content) ==
    <<"\\","b","e","g","i","n","{">> \o name \o <<"}">> \o content
        \o <<"\\","e","n","d","{">> \o name \o <<"}">>

MaxCells == 3

\* what stands between the opener and the closer of a matrix environment
MatrixCells == {<<"1">>, <<"&">>, RowSeparator, <<" ">>}

MatrixEnvNames == {MatrixNames[1], MatrixNames[2]}

\* a second environment of the formula: 1x1, 1x2 and 2x1
SecondContents == {<<"1">>, <<"1","&","1">>, <<"1">> \o RowSeparator \o <<"1">>}

SecondEnvironments ==
    {<<>>} \cup {Environment(name, content) : name \in MatrixEnvNames,
                                               content \in SecondContents}

InitMatrix ==
    \E name \in MatrixEnvNames, content \in Pieced(MatrixCells, MaxCells),
       second \in SecondEnvironments, second_first \in BOOLEAN,
       a_matrix \in MatrixArgs :
        /\ Loaded(NoSettings)
        /\ Constructed(None, None, a_matrix)
        /\ Called(IF second_first THEN second \o Environment(name, content)
                                  ELSE Environment(name, content) \o second,
                  "validate")

\* validate(formula) on formulas with one or two matrix environments
SpecMatrix == InitMatrix /\ [][Next]_vars

InitMatrixSize ==
    \E name \in MatrixEnvNames, content \in Pieced(MatrixCells, MaxCells),
       second \in SecondEnvironments, second_first \in BOOLEAN :
        /\ Loaded(NoSettings)
        /\ Constructed(None, None, None)
        /\ Called(IF second_first THEN second \o Environment(name, content)
                                  ELSE Environment(name, content) \o second,
                  "get_matrix_size")

\* a configuration that sets the three MATHINPUT_* limits
ConfiguredSettings ==
    ("MATHINPUT_MAX_FORMULA_LENGTH" :> 20) @@ ("MATHINPUT_MAX_NESTING_DEPTH" :> 2)
        @@ ("MATHINPUT_MAX_MATRIX_SIZE" :> <<2, 2>>)

\* limits as a caller may pass them, 0 and (0, 0) among them
LimitLengthArgs == {None, Some(0), Some(1)}

LimitNestingArgs == {None, Some(0), Some(1)}

LimitMatrixArgs == {None, Some(<<0, 0>>), Some(<<1, 1>>)}

LimitFormulas ==
    {<<>>, <<"1">>, <<"1", "1">>, <<"{">>, <<"{", "{">>,
     Environment(MatrixNames[1], <<"1">>), Environment(MatrixNames[1], <<"1", "&", "1">>)}

InitLimits ==
    \E formula \in LimitFormulas, conf \in {NoSettings, ConfiguredSettings},
       a_length \in LimitLengthArgs, a_nesting \in LimitNestingArgs,
       a_matrix \in LimitMatrixArgs :
        /\ Loaded(conf)
        /\ Constructed(a_length, a_nesting, a_matrix)
        /\ Called(formula, "validate")

\* validate(formula) on validators constructed with and without each limit
SpecLimits == InitLimits /\ [][Next]_vars

----------------------------------------------------------------------------
(* Direct calls of sanitize_latex and contains_dangerous_pattern           *)

\* pieces that the passes of sanitize_latex remove, whole or joined
SanitizerChunks == {
    <<"x">>,
    <<"<","s","c","r">>,
    <<"i","p","t">>,
    <<"<","s","C","r","i","p","t">>,
    <<"j","a","v","a">>,
    <<"s","c","r","i","p","t",":">>,
    <<">">>,
    <<"J","a","v","a","S","c","r","i","p","t",":">> }

InitSanitizer ==
    \E formula \in Pieced(SanitizerChunks, MaxChunks) :
        /\ Loaded(NoSettings)
        /\ Constructed(None, None, None)
        /\ Called(formula, "sanitize_latex")

\* pieces of which two patterns of DANGEROUS_COMMANDS match the same text, or
\* the removal of one makes a match of another
OrderChunks == {
    <<"x">>,
    <<"\\","h","r","e","f","{">>,
    <<"j","a","v","a","s","c","r","i","p","t",":">>,
    <<"}">>,
    <<"\\","i","n">>,
    <<"\\","d","e","f">>,
    <<"p","u","t","{">> }

InitOrder ==
    \E formula \in Pieced(OrderChunks, MaxChunks) :
        /\ Loaded(NoSettings)
        /\ Constructed(None, None, None)
        /\ Called(formula, "sanitize_latex")

\* result = sanitize_latex(latex_string)
CallSanitize ==
    /\ pc = "sanitize_latex"
    /\ result' = sanitize_latex(latex_string)
    /\ pc' = "sanitized"
    /\ UNCHANGED <<latex_string, max_length, max_nesting, max_matrix_size, given,
                   settings, blocked, allowed, calls,
                   error, flagged, steps,
                   dangerous, hash_seed, scan>>

\* result = sanitize_latex(result): the output is sanitized once more
CallSanitizeAgain ==
    /\ pc = "sanitized"
    /\ latex_string' = result
    /\ result' = sanitize_latex(result)
    /\ pc' = "resanitized"
    /\ UNCHANGED <<max_length, max_nesting, max_matrix_size, given, error, flagged,
                   steps, settings, blocked, allowed, calls,
                   dangerous, hash_seed, scan>>

\* flagged = contains_dangerous_pattern(result): the output is scanned
CallScan ==
    /\ pc = "sanitized"
    /\ latex_string' = result
    /\ flagged' = contains_dangerous_pattern(result)
    /\ pc' = "scanned"
    /\ UNCHANGED <<max_length, max_nesting, max_matrix_size, given, result, error,
                   steps, settings, blocked, allowed, calls,
                   dangerous, hash_seed, scan>>

NextSanitizer ==
    \/ CallSanitize
    \/ CallSanitizeAgain
    \/ CallScan

SpecSanitizer == InitSanitizer /\ [][NextSanitizer]_vars

\* one call of sanitize_latex on a formula with overlapping matches
SpecOrder == InitOrder /\ [][CallSanitize]_vars

\* pieces of what the passes look for, which are matches only when put together
SafeChunks == {
    <<"x">>,
    <<"<">>,
    <<">">>,
    <<"o","n">>,
    <<"=">>,
    <<"'">>,
    <<"\\","i","n","p","u","t">>,
    <<"{">>,
    <<"\\","f","r","a","c">> }

InitSafe ==
    \E formula \in Pieced(SafeChunks, MaxChunks) :
        /\ Loaded(NoSettings)
        /\ Constructed(None, None, None)
        /\ Called(formula, "sanitize_latex")

\* one call of sanitize_latex on a formula that is safe or nearly so
SpecSafe == InitSafe /\ [][CallSanitize]_vars

----------------------------------------------------------------------------
(* Direct calls of the other functions                                     *)

\* result = function(latex_string), value being what the function returns
Call(function, value) ==
    /\ pc = function
    /\ result' = value
    /\ pc' = function \o ":return"
    /\ UNCHANGED <<latex_string, max_length, max_nesting, max_matrix_size, given,
                   error, flagged, settings, blocked, allowed, calls,
                   dangerous, hash_seed, scan>>

CallContainsDangerousPattern ==
    /\ Call("contains_dangerous_pattern", contains_dangerous_pattern(latex_string))
    /\ UNCHANGED steps

CallExtractCommands ==
    /\ Call("extract_commands", extract_commands(latex_string))
    /\ UNCHANGED steps

CallCountNesting ==
    /\ Call("count_nesting", count_nesting(latex_string))
    /\ UNCHANGED steps

CallGetMatrixSize ==
    /\ Call("get_matrix_size", get_matrix_size(latex_string))
    /\ UNCHANGED steps

CallValidateComplexity ==
    /\ Call("validate_complexity", validate_complexity(latex_string))
    /\ steps' = IF Falsy(latex_string) THEN steps
                ELSE steps \o ComplexityRun(latex_string).steps

EntryPoints ==
    {"validate", "sanitize_latex", "contains_dangerous_pattern", "extract_commands",
     "count_nesting", "get_matrix_size", "validate_complexity"}

\* '' and None, and two formulas that are neither
EmptyInputs == {<<>>, NoneValue, <<"1">>, <<"{">>}

InitEmpty ==
    \E formula \in EmptyInputs, entry \in EntryPoints, a_length \in LengthArgs,
       a_nesting \in NestingArgs, a_matrix \in MatrixArgs :
        /\ Loaded(NoSettings)
        /\ Constructed(a_length, a_nesting, a_matrix)
        /\ Called(formula, entry)

NextEmpty ==
    \/ Next
    \/ CallSanitize
    \/ CallContainsDangerousPattern
    \/ CallExtractCommands
    \/ CallCountNesting
    \/ CallGetMatrixSize
    \/ CallValidateComplexity

\* one call of one entry point, on an empty or a short input
SpecEmpty == InitEmpty /\ [][NextEmpty]_vars

MaxChars == 5

\* a backslash, a lower-case and an upper-case letter, and a digit
CommandChars == {<<"\\">>, <<"a">>, <<"B">>, <<"1">>}

InitCommands ==
    \E formula \in Pieced(CommandChars, MaxChars) \cup {NoneValue} :
        /\ Loaded(NoSettings)
        /\ Constructed(None, None, None)
        /\ Called(formula, "extract_commands")

\* one call of extract_commands
SpecCommands == InitCommands /\ [][CallExtractCommands]_vars

\* a backslash, the braces and parentheses, and an opening square bracket
NestingChars == {<<"\\">>, <<"{">>, <<"}">>, <<"(">>, <<")">>, <<"[">>}

InitNesting ==
    \E formula \in Pieced(NestingChars, MaxChars) \cup {NoneValue} :
        /\ Loaded(NoSettings)
        /\ Constructed(None, None, None)
        /\ Called(formula, "count_nesting")

\* one call of count_nesting
SpecNesting == InitNesting /\ [][CallCountNesting]_vars

\* count_nesting(latex_string) entered: 0 returned for a falsy argument, the
\* locals of the loop set otherwise
ScanEnter ==
    /\ pc = "count_nesting:enter"
    /\ IF Falsy(latex_string)
       THEN pc' = "count_nesting:return" /\ result' = 0 /\ UNCHANGED scan
       ELSE pc' = "count_nesting:while" /\ scan' = ScanStart /\ UNCHANGED result
    /\ UNCHANGED <<latex_string, max_length, max_nesting, max_matrix_size, given,
                   error, flagged, steps, settings, blocked, allowed, calls,
                   dangerous, hash_seed>>

\* one iteration of the while loop
ScanIterate ==
    /\ pc = "count_nesting:while"
    /\ scan.i <= Len(latex_string)
    /\ scan' = ScanStep(latex_string, scan)
    /\ UNCHANGED <<latex_string, max_length, max_nesting, max_matrix_size, given, pc,
                   result, error, flagged, steps, settings, blocked, allowed, calls,
                   dangerous, hash_seed>>

\* the loop left and max_depth returned
ScanReturn ==
    /\ pc = "count_nesting:while"
    /\ scan.i > Len(latex_string)
    /\ pc' = "count_nesting:return"
    /\ result' = scan.max_depth
    /\ UNCHANGED <<latex_string, max_length, max_nesting, max_matrix_size, given,
                   error, flagged, steps, settings, blocked, allowed, calls,
                   dangerous, hash_seed, scan>>

\* a backslash and the two kinds of bracket that validate's formulas have most
ScanChars == {<<"\\">>, <<"{">>, <<"}">>, <<"(">>, <<")">>}

InitScan ==
    \E formula \in Pieced(ScanChars, MaxChars) \cup {NoneValue} :
        /\ Loaded(NoSettings)
        /\ Constructed(None, None, None)
        /\ Called(formula, "count_nesting:enter")

NextScan == ScanEnter \/ ScanIterate \/ ScanReturn

\* one call of count_nesting, iteration by iteration
SpecScan == InitScan /\ [][NextScan]_vars

\* one call of get_matrix_size
SpecMatrixSize == InitMatrixSize /\ [][CallGetMatrixSize]_vars

\* the caller of validate goes on to call validate_complexity on the formula
ThenValidateComplexity ==
    /\ pc \in {"returned", "raised"}
    /\ pc' = "validate_complexity"
    /\ steps' = <<>>
    /\ UNCHANGED <<latex_string, max_length, max_nesting, max_matrix_size, given,
                   result, error, flagged, settings, blocked, allowed, calls,
                   dangerous, hash_seed, scan>>

\* pieces that fail the checks: a script tag, an unknown command, a bracket and
\* a 1x2 matrix
ComplexityChunks == {
    <<"1">>,
    <<"<","s","C","r","i","p","t">>,
    <<"\\","f","o","o">>,
    <<"{">>,
    Environment(MatrixNames[1], <<"1","&","1">>) }

\* the configurations that set some of the three limits, to 3, 1 and (1, 1)
LowSettings ==
    ("MATHINPUT_MAX_FORMULA_LENGTH" :> 3) @@ ("MATHINPUT_MAX_NESTING_DEPTH" :> 1)
        @@ ("MATHINPUT_MAX_MATRIX_SIZE" :> <<1, 1>>)

SettingsChoices == {[name \in names |-> LowSettings[name]] : names \in SUBSET DOMAIN LowSettings}

InitComplexity ==
    \E formula \in Pieced(ComplexityChunks, MaxChunks), conf \in SettingsChoices :
        /\ Loaded(conf)
        /\ Constructed(None, None, None)
        /\ Called(formula, "validate")

NextComplexity ==
    \/ Next
    \/ ThenValidateComplexity
    \/ CallValidateComplexity

\* MathInputValidator().validate(formula), then validate_complexity(formula)
SpecComplexity == InitComplexity /\ [][NextComplexity]_vars

----------------------------------------------------------------------------
(* Concurrent calls of validate on one validator                           *)

\* the locals of a call of validate(formula) that has not started
NewCall(formula) ==
    [latex_string |-> formula, pc |-> "validate", result |-> <<>>, error |-> NoError,
     steps |-> <<>>]

\* the call after its next step: the empty check, one of the five numbered
\* checks, or the final sanitize and return
ValidateStep(call) ==
    LET s == call.latex_string
        raise(e) == [call EXCEPT !.pc = "raised", !.error = e]
        return(v) == [call EXCEPT !.pc = "returned", !.result = v]
        goto(label) == [call EXCEPT !.pc = label]
        ran(step, next) == [next EXCEPT !.steps = Append(call.steps, step)]
    IN  CASE call.pc = "validate" ->
                IF Falsy(s) THEN return(<<>>) ELSE goto("length")
          [] call.pc = "length" ->
                ran("length",
                    IF TooLong(s)
                    THEN raise([kind |-> "TooLong", max |-> max_length, got |-> Len(s)])
                    ELSE goto("pattern"))
          [] call.pc = "pattern" ->
                ran("pattern",
                    IF contains_dangerous_pattern(s)
                    THEN raise([kind |-> "UnsafeContent"])
                    ELSE goto("commands"))
          [] call.pc = "commands" ->
                ran("commands",
                    IF BlockedCommands(s) # {}
                    THEN raise([kind |-> "DisallowedCommands",
                                commands |-> BlockedCommands(s)])
                    ELSE goto("nesting"))
          [] call.pc = "nesting" ->
                ran("nesting",
                    IF TooDeep(s)
                    THEN raise([kind |-> "TooDeeplyNested", max |-> max_nesting,
                                got |-> count_nesting(s)])
                    ELSE goto("matrix"))
          [] call.pc = "matrix" ->
                ran("matrix",
                    IF MatrixTooLarge(get_matrix_size(s))
                    THEN raise([kind |-> "MatrixTooLarge", max |-> max_matrix_size,
                                got |-> get_matrix_size(s)])
                    ELSE goto("sanitize"))
          [] call.pc = "sanitize" ->
                ran("sanitize", return(Sanitized(s)))

\* a step that also leaves the length of a formula it lets through in the
\* validator's max_length
ConcurrentStepWriting(c) ==
    /\ calls[c].pc \notin {"returned", "raised"}
    /\ calls' = [calls EXCEPT ![c] = ValidateStep(calls[c])]
    /\ max_length' = IF calls[c].pc = "length" /\ ~TooLong(calls[c].latex_string)
                     THEN Len(calls[c].latex_string)
                     ELSE max_length
    /\ UNCHANGED <<latex_string, max_nesting, max_matrix_size, given, pc,
                   result, error, flagged, steps, settings, blocked, allowed,
                   dangerous, hash_seed, scan>>

\* call c takes its next step; it writes its own locals only
ConcurrentStep(c) ==
    /\ calls[c].pc \notin {"returned", "raised"}
    /\ calls' = [calls EXCEPT ![c] = ValidateStep(calls[c])]
    /\ UNCHANGED <<latex_string, max_length, max_nesting, max_matrix_size, given, pc,
                   result, error, flagged, steps, settings, blocked, allowed,
                   dangerous, hash_seed, scan>>

MaxCalls == 2

ConcurrentFormulas == {
    <<"1">>,
    <<"<","s","C","r","i","p","t">>,
    <<"\\","f","o","o">>,
    <<"{","{">>,
    Environment(MatrixNames[1], <<"1","&","1">>) }

InitConcurrent ==
    \E formulas \in [1..MaxCalls -> ConcurrentFormulas], low \in BOOLEAN :
        /\ Loaded(NoSettings)
        /\ IF low THEN Constructed(Some(3), Some(1), Some(<<1, 1>>))
                  ELSE Constructed(None, None, None)
        /\ latex_string = <<>>
        /\ pc = "concurrent"
        /\ result = <<>>
        /\ error = NoError
        /\ flagged = FALSE
        /\ steps = <<>>
        /\ calls = [c \in 1..MaxCalls |-> NewCall(formulas[c])]
        /\ scan = ScanStart

NextConcurrent == \E c \in 1..MaxCalls : ConcurrentStep(c)

\* MaxCalls calls of validate on one validator, their steps interleaved
SpecConcurrent == InitConcurrent /\ [][NextConcurrent]_vars

----------------------------------------------------------------------------
(* Direct calls of is_command_allowed                                      *)

\* str.upper()
upper(s) == [i \in 1..Len(s) |-> UpperChar(s[i])]

\* the names of BLOCKED_COMMANDS, character by character
BlockedNames == {
    <<"i","n","p","u","t">>,
    <<"i","n","c","l","u","d","e">>,
    <<"w","r","i","t","e","1","8">>,
    <<"d","e","f">>,
    <<"n","e","w","c","o","m","m","a","n","d">>,
    <<"r","e","n","e","w","c","o","m","m","a","n","d">>,
    <<"p","r","o","v","i","d","e","c","o","m","m","a","n","d">>,
    <<"v","e","r","b","a","t","i","m","i","n","p","u","t">>,
    <<"l","s","t","i","n","p","u","t","l","i","s","t","i","n","g">>,
    <<"c","a","t","c","o","d","e">>,
    <<"m","a","k","e","a","t","l","e","t","t","e","r">>,
    <<"m","a","k","e","a","t","o","t","h","e","r">>,
    <<"u","s","e","p","a","c","k","a","g","e">>,
    <<"R","e","q","u","i","r","e","P","a","c","k","a","g","e">>,
    <<"d","o","c","u","m","e","n","t","c","l","a","s","s">>,
    <<"h","r","e","f">> }

\* a name as callers may spell it: letter case changed, whitespace around it
Spellings(name) ==
    {left \o cased \o right : cased \in {name, lower(name), upper(name)},
                              left \in {<<>>, <<" ">>}, right \in {<<>>, <<" ">>, <<"\t">>}}

\* is_command_allowed(command) for a blocked name, with ALLOWED_COMMANDS as
\* loaded or with the blocked name added to it
InitAllowed ==
    \E name \in BlockedNames, whitelisted \in BOOLEAN : \E command \in Spellings(name) :
        /\ settings = NoSettings
        /\ blocked = BLOCKED_COMMANDS
        /\ allowed = IF whitelisted THEN ALLOWED_COMMANDS \cup {StrOf(name)}
                                    ELSE ALLOWED_COMMANDS
        /\ dangerous = DANGEROUS_COMMANDS
        /\ hash_seed = 0
        /\ Constructed(None, None, None)
        /\ Called(command, "is_command_allowed")

\* result = is_command_allowed(latex_string)
CallIsCommandAllowed ==
    /\ pc = "is_command_allowed"
    /\ result' = is_command_allowed(latex_string)
    /\ pc' = "answered"
    /\ UNCHANGED <<latex_string, max_length, max_nesting, max_matrix_size, given,
                   error, flagged, steps, settings, blocked, allowed, calls,
                   dangerous, hash_seed, scan>>

NextAllowed == CallIsCommandAllowed

SpecAllowed == InitAllowed /\ [][NextAllowed]_vars

----------------------------------------------------------------------------
(* The same formula validated again                                        *)

MaxRepeats == 1

\* the outcome of the call that ended is kept and validate is called again on
\* the same formula with the same limits, in the same process or in another
\* one, whose hash seed has not shown yet
ValidateAgain ==
    /\ pc \in {"returned", "raised"}
    /\ Len(calls) < MaxRepeats
    /\ calls' = Append(calls, [latex_string |-> latex_string, pc |-> pc,
                               result |-> result, error |-> error, steps |-> steps])
    /\ pc' = "validate"
    /\ result' = <<>>
    /\ error' = NoError
    /\ steps' = <<>>
    /\ hash_seed' \in {hash_seed, 0}
    /\ UNCHANGED <<latex_string, max_length, max_nesting, max_matrix_size, given,
                   flagged, settings, blocked, allowed, dangerous, scan>>

\* two unknown commands, a script tag, a bracket and a digit
AgainChunks == {
    <<"1">>,
    <<"\\","f","o","o">>,
    <<"\\","b","a","z">>,
    <<"<","s","C","r","i","p","t">>,
    <<"{">> }

InitAgain ==
    \E formula \in Pieced(AgainChunks, MaxChunks), a_nesting \in {None, Some(1)} :
        /\ Loaded(NoSettings)
        /\ Constructed(None, a_nesting, None)
        /\ Called(formula, "validate")

NextAgain == Next \/ ValidateAgain

\* validate(formula) called, and called again
SpecAgain == InitAgain /\ [][NextAgain]_vars

\* formulas for validate that end in a backslash or not
TerminationChunks == AgainChunks \cup {<<"\\">>}

InitTermination ==
    \/ \E formula \in Pieced(TerminationChunks, MaxChunks), a_length \in LengthArgs,
          a_nesting \in NestingArgs :
           /\ Loaded(NoSettings)
           /\ Constructed(a_length, a_nesting, None)
           /\ Called(formula, "validate")
    \/ InitScan

NextTermination == Next \/ NextScan

\* the interpreter runs the next statement of a call that has one: the code is
\* sequential and nothing in it waits. The last conjunct but one is
\* WF_vars(SanitizeAndReturn) with ENABLED written out as the guard of that
\* action, pc = "sanitize".
Scheduled ==
    /\ WF_vars(CheckEmpty) /\ WF_vars(CheckLength) /\ WF_vars(CheckPattern)
    /\ WF_vars(CheckCommands) /\ WF_vars(CheckNesting) /\ WF_vars(CheckMatrix)
    /\ ([]<>(pc # "sanitize") \/ []<><<SanitizeAndReturn>>_vars)
    /\ WF_vars(NextScan)

\* a call of validate or of count_nesting that, once started, is run to its end
SpecTermination ==
    InitTermination /\ [][NextTermination]_vars /\ Scheduled

----------------------------------------------------------------------------
(* get_blocked_commands, get_allowed_commands and their callers            *)

\* a set object: its elements, and which object it is, a module-level set or a
\* new one
SetObject(elements, object) == [elements |-> elements, object |-> object]

\* return BLOCKED_COMMANDS
get_blocked_commands_same == SetObject(blocked, "BLOCKED_COMMANDS")

\* return BLOCKED_COMMANDS.copy()
get_blocked_commands == SetObject(blocked, "copy")

\* return ALLOWED_COMMANDS.copy()
get_allowed_commands == SetObject(allowed, "copy")

CallGetBlockedCommands ==
    /\ pc = "get_blocked_commands"
    /\ result' = get_blocked_commands
    /\ pc' = "got"
    /\ UNCHANGED <<latex_string, max_length, max_nesting, max_matrix_size, given,
                   error, flagged, steps, settings, blocked, allowed, calls,
                   dangerous, hash_seed, scan>>

CallGetAllowedCommands ==
    /\ pc = "get_allowed_commands"
    /\ result' = get_allowed_commands
    /\ pc' = "got"
    /\ UNCHANGED <<latex_string, max_length, max_nesting, max_matrix_size, given,
                   error, flagged, steps, settings, blocked, allowed, calls,
                   dangerous, hash_seed, scan>>

\* a blocked name, an allowed name and a name in neither set
ChangedNames == {<<"i","n","p","u","t">>, <<"f","r","a","c">>, <<"f","o","o">>}

\* the caller adds a name to the set it got, or discards one from it, and then
\* asks is_command_allowed about that name; a change of a module-level set
\* object is a change of the set the module reads
ChangeReturned ==
    /\ pc = "got"
    /\ \E name \in ChangedNames, add \in BOOLEAN :
          LET elements == IF add THEN result.elements \cup {StrOf(name)}
                                 ELSE result.elements \ {StrOf(name)}
          IN  /\ result' = [result EXCEPT !.elements = elements]
              /\ blocked' = IF result.object = "BLOCKED_COMMANDS" THEN elements
                                                                  ELSE blocked
              /\ allowed' = IF result.object = "ALLOWED_COMMANDS" THEN elements
                                                                  ELSE allowed
              /\ latex_string' = name
    /\ pc' = "is_command_allowed"
    /\ UNCHANGED <<max_length, max_nesting, max_matrix_size, given, error, flagged,
                   steps, settings, calls, dangerous, hash_seed, scan>>

FrameEntryPoints ==
    EntryPoints \cup {"is_command_allowed", "get_blocked_commands", "get_allowed_commands"}

\* a safe formula, one for each rejection of validate, a command name and ''
FrameFormulas == {
    <<>>,
    <<"1">>,
    <<"1", "1", "1", "1">>,
    <<"<","s","c","r","i","p","t">>,
    <<"\\","f","o","o">>,
    <<"f","r","a","c">>,
    <<"{", "{">>,
    Environment(MatrixNames[1], <<"1","&","1">>) }

InitFrame ==
    \E formula \in FrameFormulas, entry \in FrameEntryPoints, low \in BOOLEAN :
        /\ Loaded(NoSettings)
        /\ IF low THEN Constructed(Some(3), Some(1), Some(<<1, 1>>))
                  ELSE Constructed(None, None, None)
        /\ Called(formula, entry)

NextFrame ==
    \/ NextEmpty
    \/ CallIsCommandAllowed
    \/ CallGetBlockedCommands
    \/ CallGetAllowedCommands
    \/ ChangeReturned

\* one call of one function of the core, and a caller that changes the set
\* that get_blocked_commands or get_allowed_commands gave it
SpecFrame == InitFrame /\ [][NextFrame]_vars

----------------------------------------------------------------------------
(* Properties                                                              *)

Done == pc \in {"raised", "returned"}

ScriptTag == <<"<","s","c","r","i","p","t">>

JavascriptUri == <<"j","a","v","a","s","c","r","i","p","t",":">>

FailsLength(s) == Len(s) > max_length

FailsCommands(s) == \E cmd \in extract_commands(s) : ~is_command_allowed(cmd)

FailsNesting(s) == count_nesting(s) > max_nesting

FailsMatrix(s) ==
    /\ get_matrix_size(s) # NoMatrix
    /\ \/ get_matrix_size(s)[1] > max_matrix_size[1]
       \/ get_matrix_size(s)[2] > max_matrix_size[2]

\* the earliest check, in the order of the claim, that s fails
FirstFailure(s) ==
    IF FailsLength(s) THEN "TooLong"
    ELSE IF contains_dangerous_pattern(s) THEN "UnsafeContent"
    ELSE IF FailsCommands(s) THEN "DisallowedCommands"
    ELSE IF FailsNesting(s) THEN "TooDeeplyNested"
    ELSE IF FailsMatrix(s) THEN "MatrixTooLarge"
    ELSE "none"

\* C1: validate checks a non-empty formula in the order length, dangerous
\* pattern, commands, nesting, matrix size: the error it raises is the one of
\* the earliest check the formula fails, and it returns only when none fails.
C1_FirstFailureWins ==
    Done /\ latex_string # <<>> =>
        /\ error.kind = FirstFailure(latex_string)
        /\ pc = "returned" <=> FirstFailure(latex_string) = "none"

\* a formula that is too long and dangerous was rejected as too long
C1_Witness ==
    /\ pc = "raised"
    /\ error.kind = "TooLong"
    /\ contains_dangerous_pattern(latex_string)

\* C2: when validate returns for a non-empty formula, every command name
\* extract_commands yields for the formula satisfies is_command_allowed.
C2_AcceptedCommandsAllowed ==
    pc = "returned" /\ latex_string # <<>> =>
        \A cmd \in extract_commands(latex_string) : is_command_allowed(cmd)

\* a formula with commands was accepted
C2_Witness ==
    /\ pc = "returned"
    /\ extract_commands(latex_string) # {}

\* C3: sanitize_latex(sanitize_latex(s)) = sanitize_latex(s): after the
\* second call, whose argument is the first output, the output is the argument.
C3_SanitizeIdempotent ==
    pc = "resanitized" => result = latex_string

\* C4: contains_dangerous_pattern(sanitize_latex(s)) is False.
C4_SanitizedNotFlagged ==
    pc = "scanned" => ~flagged

\* C5: the lower-cased output of sanitize_latex contains neither '<script'
\* nor 'javascript:'.
C5_SanitizedHasNoScript ==
    pc = "sanitized" =>
        /\ ~Contains(lower(result), ScriptTag)
        /\ ~Contains(lower(result), JavascriptUri)

\* C6: the value validate returns for a non-empty formula is
\* sanitize_latex(formula).
C6_ReturnsSanitized ==
    pc = "returned" /\ latex_string # <<>> => result = sanitize_latex(latex_string)

\* a non-empty formula was accepted and a non-empty text returned
C6_Witness ==
    /\ pc = "returned"
    /\ latex_string # <<>>
    /\ result # <<>>

HasScript(s) == Contains(lower(s), ScriptTag) \/ Contains(lower(s), JavascriptUri)

\* C7: contains_dangerous_pattern is True of every string that contains
\* '<script' or 'javascript:' in any letter case, and validate rejects every
\* such string of at most max_length characters as unsafe content.
C7_ScriptFlagged ==
    HasScript(latex_string) =>
        /\ contains_dangerous_pattern(latex_string)
        /\ Done /\ Len(latex_string) <= max_length =>
               pc = "raised" /\ error.kind = "UnsafeContent"

\* a mixed-case script string behind a LaTeX command was rejected as unsafe
C7_Witness ==
    /\ pc = "raised"
    /\ error.kind = "UnsafeContent"
    /\ HasScript(latex_string)
    /\ lower(latex_string) # latex_string
    /\ latex_string[1] = "\\"

\* C8: a non-empty formula is rejected as too long if and only if it has more
\* than max_length characters.
C8_TooLongIffOverLimit ==
    Done /\ latex_string # <<>> =>
        (error.kind = "TooLong" <=> Len(latex_string) > max_length)

\* a formula of max_length + 1 characters was rejected as too long
C8_Witness ==
    /\ pc = "raised"
    /\ error.kind = "TooLong"
    /\ Len(latex_string) = max_length + 1

PassesUpToCommands(s) ==
    /\ s # <<>>
    /\ ~FailsLength(s)
    /\ ~contains_dangerous_pattern(s)
    /\ ~FailsCommands(s)

\* C9: a formula that passes the length, dangerous-pattern and command checks
\* is rejected as too deeply nested if and only if count_nesting(formula) is
\* greater than max_nesting.
C9_TooDeepIffOverLimit ==
    Done /\ PassesUpToCommands(latex_string) =>
        (error.kind = "TooDeeplyNested" <=> count_nesting(latex_string) > max_nesting)

\* a formula nested exactly max_nesting deep was not rejected for nesting
C9_Witness ==
    /\ Done
    /\ PassesUpToCommands(latex_string)
    /\ given.max_nesting # None
    /\ count_nesting(latex_string) = max_nesting
    /\ error.kind # "TooDeeplyNested"

\* C10: a formula that passes the length, dangerous-pattern, command and
\* nesting checks is rejected as matrix-too-large if and only if
\* get_matrix_size gives rows > max_rows or cols > max_cols; without a matrix
\* (None) it is never rejected for matrix size.
C10_MatrixTooLargeIffOverLimit ==
    Done /\ PassesUpToCommands(latex_string) /\ ~FailsNesting(latex_string) =>
        /\ error.kind = "MatrixTooLarge" <=> FailsMatrix(latex_string)
        /\ get_matrix_size(latex_string) = NoMatrix => pc = "returned"

\* a matrix with one column too many and rows within the limit was rejected
C10_Witness ==
    /\ pc = "raised"
    /\ error.kind = "MatrixTooLarge"
    /\ get_matrix_size(latex_string)[1] <= max_matrix_size[1]
    /\ get_matrix_size(latex_string)[2] > max_matrix_size[2]

RECURSIVE SplitOn(_, _)
\* the pieces of s between the occurrences of sep, found left to right
SplitOn(s, sep) ==
    LET p == find(s, sep)
    IN  IF p = 0 THEN <<s>>
        ELSE <<SubSeq(s, 1, p - 1)>> \o SplitOn(SubSeq(s, p + Len(sep), Len(s)), sep)

Occurrences(s, lit) == {i \in 1..Len(s) : StartsAt(s, lit, i)}

\* the contents of the matrix environments of s: for every opener of every
\* recognized name, the text up to the nearest closer of that name after it
MatrixContents(s) ==
    UNION {LET opener == <<"\\","b","e","g","i","n","{">> \o MatrixNames[k] \o <<"}">>
               closer == <<"\\","e","n","d","{">> \o MatrixNames[k] \o <<"}">>
           IN  {SubSeq(s, i + Len(opener),
                       SetMin({j \in Occurrences(s, closer) : j >= i + Len(opener)}) - 1) :
                    i \in {o \in Occurrences(s, opener) :
                              \E j \in Occurrences(s, closer) : j >= o + Len(opener)}} :
           k \in 1..Len(MatrixNames)}

RowsOf(content) == Len(SplitOn(content, RowSeparator))

ColsOf(content) == Len(SplitOn(SplitOn(content, RowSeparator)[1], <<"&">>))

\* no row of the content is blank
FilledRows(content) ==
    \A i \in 1..RowsOf(content) : strip(SplitOn(content, RowSeparator)[i]) # <<>>

\* s has a matrix environment, every row filled, that exceeds a limit
HasLargeMatrix(s) ==
    \E content \in MatrixContents(s) :
        /\ FilledRows(content)
        /\ \/ RowsOf(content) > max_matrix_size[1]
           \/ ColsOf(content) > max_matrix_size[2]

\* C11: a formula that passes the length, dangerous-pattern, command and
\* nesting checks and contains, anywhere, a matrix environment with more rows
\* than max_rows or more columns than max_cols is rejected as matrix-too-large.
C11_LargeMatrixRejected ==
    /\ Done
    /\ PassesUpToCommands(latex_string)
    /\ ~FailsNesting(latex_string)
    /\ HasLargeMatrix(latex_string)
    => pc = "raised" /\ error.kind = "MatrixTooLarge"

\* the spelling is one of a name of BLOCKED_COMMANDS
SpellsBlockedName(command) ==
    \E name \in BlockedNames :
        /\ StrOf(name) \in blocked
        /\ command \in Spellings(name)

\* C12: is_command_allowed answers False for every name of BLOCKED_COMMANDS,
\* in any letter case and with whitespace around it, also when the same name
\* is in ALLOWED_COMMANDS; and BlockedNames are the names of BLOCKED_COMMANDS.
C12_BlockedNeverAllowed ==
    /\ {StrOf(name) : name \in BlockedNames} = BLOCKED_COMMANDS
    /\ pc = "answered" /\ SpellsBlockedName(latex_string) => result = FALSE

\* a blocked name that is also in the whitelist, spelled in upper case with
\* whitespace around it, was refused
C12_Witness ==
    /\ pc = "answered"
    /\ result = FALSE
    /\ StrOf(strip(lower(latex_string))) \in blocked \cap allowed
    /\ strip(latex_string) # latex_string
    /\ lower(latex_string) # latex_string

\* C13: on '' and on None, validate returns '' without running a check,
\* whatever the limits, sanitize_latex returns '', contains_dangerous_pattern
\* False, extract_commands no name, count_nesting 0, get_matrix_size None and
\* validate_complexity (True, []).
C13_EmptyShortCircuits ==
    Falsy(latex_string) =>
        /\ pc \in {"validate", "returned"} \cup EntryPoints
                  \cup {"sanitized"} \cup {entry \o ":return" : entry \in EntryPoints}
        /\ pc = "returned" => result = <<>> /\ steps = <<>> /\ error = NoError
        /\ pc = "sanitized" => result = <<>>
        /\ pc = "contains_dangerous_pattern:return" => result = FALSE
        /\ pc = "extract_commands:return" => result = {}
        /\ pc = "count_nesting:return" => result = 0
        /\ pc = "get_matrix_size:return" => result = NoMatrix
        /\ pc = "validate_complexity:return" => result = <<TRUE, <<>>>> /\ steps = <<>>

\* validate(None) returned on a validator constructed with all three limits
C13_Witness ==
    /\ pc = "returned"
    /\ latex_string = NoneValue
    /\ None \notin {given.max_length, given.max_nesting, given.max_matrix_size}

\* the limit a validator is to use: the value passed, else the configured
\* setting, else the documented default
LimitToUse(arg, name, default) ==
    IF arg # None THEN ValueOf(arg)
    ELSE IF name \in DOMAIN settings THEN settings[name]
    ELSE default

\* C14: a validator uses exactly the max_length, max_nesting and
\* max_matrix_size it was constructed with, 0 and (0, 0) included, and for a
\* limit not passed the configured setting or else 10000, 50, (100, 100); a
\* finished validate call has rejected the formula as too long exactly when
\* it is longer than that limit.
C14_LimitsAsGiven ==
    /\ max_length = LimitToUse(given.max_length, "MATHINPUT_MAX_FORMULA_LENGTH", 10000)
    /\ max_nesting = LimitToUse(given.max_nesting, "MATHINPUT_MAX_NESTING_DEPTH", 50)
    /\ max_matrix_size
           = LimitToUse(given.max_matrix_size, "MATHINPUT_MAX_MATRIX_SIZE", <<100, 100>>)
    /\ Done /\ latex_string # <<>> =>
           (error.kind = "TooLong"
                <=> Len(latex_string)
                        > LimitToUse(given.max_length, "MATHINPUT_MAX_FORMULA_LENGTH", 10000))

\* C15: validate_complexity(s) passes exactly when MathInputValidator() with
\* the default limits accepts s, and when it does not pass, its first issue is
\* of the kind of the rejection validate raised for s.
C15_ComplexityAgreesWithValidate ==
    pc = "validate_complexity:return" =>
        /\ result[1] <=> error.kind = "none"
        /\ ~result[1] => result[2][1].kind = error.kind

\* a formula failing two checks was rejected by validate and did not pass
\* validate_complexity
C15_Witness ==
    /\ pc = "validate_complexity:return"
    /\ ~result[1]
    /\ Len(result[2]) >= 2
    /\ error.kind = "UnsafeContent"

\* whether s fails the check of that kind under the limits of the module
FailsCheck(kind, s) ==
    CASE kind = "TooLong" -> Len(s) > MAX_FORMULA_LENGTH
      [] kind = "UnsafeContent" -> contains_dangerous_pattern(s)
      [] kind = "DisallowedCommands" -> FailsCommands(s)
      [] kind = "TooDeeplyNested" -> count_nesting(s) > MAX_NESTING_DEPTH
      [] kind = "MatrixTooLarge" ->
            /\ get_matrix_size(s) # NoMatrix
            /\ \/ get_matrix_size(s)[1] > MAX_MATRIX_SIZE[1]
               \/ get_matrix_size(s)[2] > MAX_MATRIX_SIZE[2]

CheckKinds ==
    <<"TooLong", "UnsafeContent", "DisallowedCommands", "TooDeeplyNested", "MatrixTooLarge">>

\* C16: for a non-empty string, the issues of validate_complexity are one for
\* each of the five checks that fails, in the order length, dangerous pattern,
\* commands, nesting, matrix size; it passes exactly when there is no issue;
\* all five checks are run and the sanitizer is not.
C16_ComplexityCollectsAll ==
    pc = "validate_complexity:return" /\ ~Falsy(latex_string) =>
        /\ [i \in 1..Len(result[2]) |-> result[2][i].kind]
               = SelectSeq(CheckKinds, LAMBDA kind : FailsCheck(kind, latex_string))
        /\ result[1] <=> result[2] = <<>>
        /\ steps = <<"length", "pattern", "commands", "nesting", "matrix">>

\* validate_complexity returned three issues or more
C16_Witness ==
    /\ pc = "validate_complexity:return"
    /\ Len(result[2]) >= 3

\* what validate(s) does when it runs alone on a validator with the limits
\* length, nesting and matrix: the kind of its rejection, "none" if it returns
AloneKind(s, length, nesting, matrix) ==
    IF Len(s) > length THEN "TooLong"
    ELSE IF contains_dangerous_pattern(s) THEN "UnsafeContent"
    ELSE IF FailsCommands(s) THEN "DisallowedCommands"
    ELSE IF count_nesting(s) > nesting THEN "TooDeeplyNested"
    ELSE IF /\ get_matrix_size(s) # NoMatrix
            /\ \/ get_matrix_size(s)[1] > matrix[1]
               \/ get_matrix_size(s)[2] > matrix[2] THEN "MatrixTooLarge"
    ELSE "none"

\* the outcome of call c is that of the call run alone on the validator as
\* constructed
AsAlone(c) ==
    LET s == calls[c].latex_string
        kind == AloneKind(s, IF given.max_length = None THEN 10000
                                 ELSE ValueOf(given.max_length),
                             IF given.max_nesting = None THEN 50
                                 ELSE ValueOf(given.max_nesting),
                             IF given.max_matrix_size = None THEN <<100, 100>>
                                 ELSE ValueOf(given.max_matrix_size))
    IN  /\ calls[c].error.kind = kind
        /\ calls[c].pc = "returned" <=> kind = "none"
        /\ calls[c].pc = "returned" => calls[c].result = sanitize_latex(s)

\* C17: under every interleaving of concurrent validate calls on a shared
\* validator, each finished call has returned or raised what it does when run
\* alone on its formula, and the limits and registries are as they were.
C17_ConcurrentCallsAsAlone ==
    /\ \A c \in DOMAIN calls :
           calls[c].pc \in {"returned", "raised"} => AsAlone(c)
    /\ blocked = BLOCKED_COMMANDS /\ allowed = ALLOWED_COMMANDS
    /\ max_length = IntOr(given.max_length, MAX_FORMULA_LENGTH)
    /\ max_nesting = IntOr(given.max_nesting, MAX_NESTING_DEPTH)
    /\ max_matrix_size = TupleOr(given.max_matrix_size, MAX_MATRIX_SIZE)

\* two calls with different outcomes finished, the one that raised having
\* started its checks before the other returned
C17_Witness ==
    /\ DOMAIN calls # {}
    /\ calls[1].pc = "returned"
    /\ calls[2].pc = "raised"
    /\ calls[2].error.kind = "TooDeeplyNested"

\* the names in s: for each backslash that a letter follows, the letters from
\* there up to the first character that is not a letter
NamesIn(s) ==
    {SubSeq(s, i + 1, j) : <<i, j>> \in
        {p \in (1..Len(s)) \X (1..Len(s)) :
            /\ p[1] < p[2]
            /\ s[p[1]] = "\\"
            /\ \A k \in (p[1] + 1)..p[2] : s[k] \in Letters
            /\ p[2] = Len(s) \/ s[p[2] + 1] \notin Letters}}

\* C18: extract_commands(s) returns exactly the names formed by each backslash
\* of s and the maximal run of one or more letters after it, none of them with
\* a backslash in it, and returns nothing for '' and None.
C18_CommandsAreBackslashNames ==
    pc = "extract_commands:return" =>
        /\ result = IF Falsy(latex_string) THEN {} ELSE NamesIn(latex_string)
        /\ \A name \in result :
               name # <<>> /\ \A k \in 1..Len(name) : name[k] # "\\"

\* two names returned from a formula that also has a backslash before a
\* non-letter or a letter with no backslash before it
C18_Witness ==
    /\ pc = "extract_commands:return"
    /\ result = {<<"a">>, <<"B">>}
    /\ Len(latex_string) = 5

RECURSIVE BackslashesBefore(_, _)
\* the number of backslashes in a row that end right before position k of s
BackslashesBefore(s, k) ==
    IF k = 1 \/ s[k - 1] # "\\" THEN 0 ELSE 1 + BackslashesBefore(s, k - 1)

\* position k of s is skipped: by the scan, which skips what follows a
\* backslash it has read, or (after_any) for following any backslash of s
Skipped(s, k, after_any) ==
    IF after_any THEN BackslashesBefore(s, k) > 0
    ELSE BackslashesBefore(s, k) % 2 = 1

\* the brackets of s that are not skipped, in order
BracketsSeen(s, after_any) ==
    SelectSeq([k \in 1..Len(s) |-> IF Skipped(s, k, after_any) THEN " " ELSE s[k]],
              LAMBDA c : c \in Openers \cup Closers)

RECURSIVE OpenAfter(_, _)
\* the brackets open after the first n of the brackets b, a closing bracket
\* closing the innermost open one if that is its opener
OpenAfter(b, n) ==
    IF n = 0 THEN <<>>
    ELSE LET open == OpenAfter(b, n - 1)
         IN  IF b[n] \in Openers THEN Append(open, b[n])
             ELSE IF open # <<>> /\ open[Len(open)] = OpenerOf[b[n]]
                  THEN SubSeq(open, 1, Len(open) - 1)
                  ELSE open

MaxOpen(b) == SetMax({Len(OpenAfter(b, n)) : n \in 0..Len(b)})

RECURSIVE ProperlyNested(_)
\* b is empty, or has an opener right before its closer and is properly
\* nested without the two
ProperlyNested(b) ==
    \/ b = <<>>
    \/ \E k \in 1..(Len(b) - 1) :
          /\ b[k] \in Openers /\ b[k + 1] \in Closers /\ OpenerOf[b[k + 1]] = b[k]
          /\ ProperlyNested(SubSeq(b, 1, k - 1) \o SubSeq(b, k + 2, Len(b)))

\* the nesting depth of properly nested brackets: the most openers not
\* yet closed at any point
TrueDepth(b) ==
    SetMax({Cardinality({k \in 1..n : b[k] \in Openers})
              - Cardinality({k \in 1..n : b[k] \in Closers}) : n \in 0..Len(b)})

\* what count_nesting returned is what the claim says of the brackets seen
NestingAsClaimed(after_any) ==
    LET b == BracketsSeen(latex_string, after_any)
    IN  /\ result = MaxOpen(b)
        /\ (\A k \in 1..Len(b) : b[k] \notin Openers) => result = 0
        /\ ProperlyNested(b) => result = TrueDepth(b)

\* C19 as stated: count_nesting(s) is the maximum number of simultaneously
\* open brackets of a scan in which every character that immediately follows a
\* backslash is skipped, 0 without an unescaped opener and the true depth of a
\* properly nested s.
C19_AfterAnyBackslashSkipped ==
    pc = "count_nesting:return" /\ ~Falsy(latex_string) => NestingAsClaimed(TRUE)

\* C19 amended: count_nesting(s) is the maximum number of simultaneously open
\* brackets of a scan in which the character after each backslash that the scan
\* reads is skipped (a backslash that is itself skipped escapes nothing), 0
\* without an unescaped opener and the true depth of a properly nested s; it is
\* 0 for '' and None.
C19_NestingIsMaxOpen ==
    pc = "count_nesting:return" =>
        IF Falsy(latex_string) THEN result = 0 ELSE NestingAsClaimed(FALSE)

\* a pair of braces counted after two backslashes and an escaped opener
C19_Witness ==
    /\ pc = "count_nesting:return"
    /\ latex_string = <<"\\", "\\", "{", "\\", "(">>
    /\ result = 1

\* the text between the first opener of the k-th environment name in s and the
\* nearest closer of that name after it (no element if there is none)
FirstContent(s, k) ==
    LET opener == <<"\\","b","e","g","i","n","{">> \o MatrixNames[k] \o <<"}">>
        closer == <<"\\","e","n","d","{">> \o MatrixNames[k] \o <<"}">>
        from == SetMin(Occurrences(s, opener)) + Len(opener)
    IN  IF Occurrences(s, opener) = {} THEN {}
        ELSE {SubSeq(s, from, j - 1) : j \in
                 {c \in Occurrences(s, closer) :
                     c >= from /\ \A d \in Occurrences(s, closer) : d >= from => c <= d}}

\* the first row of the content is not blank, so that the content has a size
HasSize(content) == strip(SplitOn(content, RowSeparator)[1]) # <<>>

\* the contents of the environment whose size get_matrix_size returns: of the
\* environment names in the order of the code, the first that has one with a size
Inspected(s) ==
    {content \in UNION {FirstContent(s, k) : k \in 1..Len(MatrixNames)} :
        /\ HasSize(content)
        /\ \E k \in 1..Len(MatrixNames) :
              /\ content \in FirstContent(s, k)
              /\ \A h \in 1..(k - 1) : \A other \in FirstContent(s, h) : ~HasSize(other)}

\* C20: when get_matrix_size returns a size, its rows are the number of row
\* separators between the opener and the closer of the environment inspected
\* plus one, and its columns the number of '&' before the first row separator
\* plus one, whatever the later rows hold.
C20_SizeIsSeparatorsPlusOne ==
    pc = "get_matrix_size:return" /\ result # NoMatrix =>
        /\ Inspected(latex_string) # {}
        /\ \A content \in Inspected(latex_string) :
              /\ result[1] = Len(SplitOn(content, RowSeparator))
              /\ result[2] = Len(SplitOn(SplitOn(content, RowSeparator)[1], <<"&">>))

\* a size of one column returned for a matrix whose second row has an '&'
C20_Witness ==
    /\ pc = "get_matrix_size:return"
    /\ result = <<2, 1>>
    /\ latex_string = Environment(MatrixNames[1], <<"1">> \o RowSeparator \o <<"&">>)

\* the patterns of DANGEROUS_COMMANDS from last to first, and with the k-th
\* moved to the front
OtherOrders ==
    LET n == Len(DANGEROUS_COMMANDS)
    IN  {[i \in 1..n |-> n + 1 - i]}
          \cup {[i \in 1..n |-> IF i = 1 THEN k ELSE IF i <= k THEN i - 1 ELSE i] :
                    k \in 2..n}

RECURSIVE RemovedIn(_, _, _)
\* s after the patterns order[k], order[k + 1], ... are removed one after another
RemovedIn(s, order, k) ==
    IF s = <<>> \/ k > Len(order) THEN s
    ELSE RemovedIn(re_sub(DANGEROUS_COMMANDS[order[k]], s, TRUE), order, k + 1)

\* the sanitizer with its dangerous patterns applied in the order given
SanitizedIn(s, order) ==
    re_sub(EventHandlerPattern,
           re_sub(HtmlTagPattern,
                  re_sub(HrefJavascriptPattern, RemovedIn(s, order, 1), TRUE), FALSE), TRUE)

\* C21 as stated: applying the patterns of DANGEROUS_COMMANDS in another order,
\* followed by the same later passes, gives the output of sanitize_latex.
C21_OrderDoesNotMatter ==
    pc = "sanitized" =>
        \A order \in OtherOrders : SanitizedIn(latex_string, order) = result

\* only one pattern of DANGEROUS_COMMANDS matches s, and nothing matches once
\* its matches are removed
OnePatternAlone(s) ==
    \E k \in 1..Len(DANGEROUS_COMMANDS) :
        /\ \A h \in 1..Len(DANGEROUS_COMMANDS) :
               h # k => ~re_search(DANGEROUS_COMMANDS[h], s, TRUE)
        /\ \A h \in 1..Len(DANGEROUS_COMMANDS) :
               ~re_search(DANGEROUS_COMMANDS[h], re_sub(DANGEROUS_COMMANDS[k], s, TRUE), TRUE)

\* C21 amended: sanitize_latex removes the patterns in the order of
\* DANGEROUS_COMMANDS, and another order gives the same output when only one
\* pattern matches the string and its removal leaves no match of any pattern.
C21_ListOrderApplied ==
    pc = "sanitized" =>
        /\ result = SanitizedIn(latex_string, [i \in 1..Len(DANGEROUS_COMMANDS) |-> i])
        /\ OnePatternAlone(latex_string) =>
               \A order \in OtherOrders : SanitizedIn(latex_string, order) = result

\* \href{javascript:} sanitized: the href pattern took the 'javascript:' that
\* the pattern after it would have taken
C21_Witness ==
    /\ pc = "sanitized"
    /\ latex_string = <<"\\","h","r","e","f","{">>
                         \o <<"j","a","v","a","s","c","r","i","p","t",":">> \o <<"}">>
    /\ result = <<"}">>

\* s has 'on' in some letter case, then one or more word characters, then
\* whitespace or none, then '='
HasEventAssignment(s) ==
    \E i \in 1..Len(s), j \in 1..Len(s), k \in 1..Len(s) :
        /\ i + 2 <= j /\ j < k
        /\ lower(SubSeq(s, i, i + 1)) = <<"o", "n">>
        /\ \A h \in (i + 2)..j : s[h] \in WordChars
        /\ \A h \in (j + 1)..(k - 1) : s[h] \in Whitespace
        /\ s[k] = "="

\* C22: a formula with 'on', word characters, optional whitespace and '='
\* anywhere in it is flagged by contains_dangerous_pattern, and validate
\* rejects it as unsafe content when it is not longer than max_length.
C22_EventAssignmentRejected ==
    ~Falsy(latex_string) /\ HasEventAssignment(latex_string) =>
        /\ contains_dangerous_pattern(latex_string)
        /\ Done /\ Len(latex_string) <= max_length =>
               pc = "raised" /\ error.kind = "UnsafeContent"

\* 'conx=' rejected as unsafe content
C22_Witness ==
    /\ pc = "raised"
    /\ error.kind = "UnsafeContent"
    /\ latex_string = <<"c", "o", "n", "x", "=">>

Opener(k) == <<"\\","b","e","g","i","n","{">> \o MatrixNames[k] \o <<"}">>

Closer(k) == <<"\\","e","n","d","{">> \o MatrixNames[k] \o <<"}">>

\* the content of the matrix environment whose opener comes first in s: the
\* text from that opener to the nearest closer of its name (no element if s
\* has no opener, or that opener no closer)
FirstInFormula(s) ==
    LET names == {k \in 1..Len(MatrixNames) : Occurrences(s, Opener(k)) # {}}
        at(k) == SetMin(Occurrences(s, Opener(k)))
        first == {k \in names : \A h \in names : at(k) <= at(h)}
    IN  UNION {LET from == at(k) + Len(Opener(k))
                   closers == {c \in Occurrences(s, Closer(k)) : c >= from}
               IN  IF closers = {} THEN {}
                   ELSE {SubSeq(s, from, SetMin(closers) - 1)} : k \in first}

FirstEnvironmentBlank(s) ==
    \E k \in 1..Len(MatrixNames) :
        /\ \A h \in 1..(k - 1) : Occurrences(s, Opener(h)) = {}
        /\ FirstContent(s, k) # {}
        /\ FirstContent(s, k) = FirstInFormula(s)
        /\ \A content \in FirstContent(s, k) : ~HasSize(content)

C25_SafeUnchanged ==
    pc = "sanitized" /\ ~contains_dangerous_pattern(latex_string) =>
        result = latex_string

\* '<on=' sanitized: it has the start of a tag and of an event handler, is not
\* flagged and comes back as it was
C25_Witness ==
    /\ pc = "sanitized"
    /\ latex_string = <<"<", "o", "n", "=">>
    /\ ~contains_dangerous_pattern(latex_string)
    /\ result = latex_string

\* the depth counter is the size of the stack and is not negative, and the
\* running maximum is not below it
ScanInvariant ==
    /\ scan.current_depth = Len(scan.brace_stack)
    /\ scan.current_depth >= 0
    /\ scan.max_depth >= scan.current_depth

\* the iteration about to run reads a closing bracket that the top of the
\* stack does not match, or reads it on an empty stack
ReadsUnmatchedCloser ==
    /\ pc = "count_nesting:while"
    /\ scan.i <= Len(latex_string)
    /\ latex_string[scan.i] \in Closers
    /\ \/ scan.brace_stack = <<>>
       \/ scan.brace_stack[Len(scan.brace_stack)] # OpenerOf[latex_string[scan.i]]

\* C26: at every step of the scan of count_nesting the depth counter equals
\* the size of the bracket stack and is not negative, and the running maximum
\* is at least the counter; an iteration that reads a closing bracket not
\* matching the stack top, or on an empty stack, changes neither the counter
\* nor the stack, and the scan goes on.
C26_ScanInvariants ==
    /\ []ScanInvariant
    /\ [][ReadsUnmatchedCloser =>
            /\ scan'.current_depth = scan.current_depth
            /\ scan'.brace_stack = scan.brace_stack
            /\ scan'.max_depth = scan.max_depth
            /\ scan'.i = scan.i + 1]_vars

\* the scan of '(}' after its second iteration: a brace read with a parenthesis
\* on top of the stack, the depth still 1
C26_Witness ==
    /\ pc = "count_nesting:while"
    /\ latex_string = <<"(", "}">>
    /\ scan.i = 3
    /\ scan.current_depth = 1
    /\ scan.brace_stack = <<"(">>

RECURSIVE IsSubsequence(_, _)
\* a can be obtained from b by removing characters
IsSubsequence(a, b) ==
    IF a = <<>> THEN TRUE
    ELSE IF b = <<>> THEN FALSE
    ELSE IF a[1] = b[1] THEN IsSubsequence(Tail(a), Tail(b))
    ELSE IsSubsequence(a, Tail(b))

\* C27: the output of sanitize_latex is its input with characters removed: a
\* subsequence of the input, not longer than it and with no character that the
\* input does not have.
C27_OnlyDeletes ==
    pc = "sanitized" =>
        /\ IsSubsequence(result, latex_string)
        /\ Len(result) <= Len(latex_string)
        /\ \A k \in 1..Len(result) :
               \E h \in 1..Len(latex_string) : result[k] = latex_string[h]

\* '<scr>x' sanitized to 'x': the tag is gone, the letter after it is kept
C27_Witness ==
    /\ pc = "sanitized"
    /\ latex_string = <<"<", "s", "c", "r", ">", "x">>
    /\ result = <<"x">>

\* is_command_allowed(command) by the literals of the two sets
AllowedAsLoaded(command) ==
    /\ StrOf(strip(lower(command))) \notin BLOCKED_COMMANDS
    /\ StrOf(strip(lower(command))) \in ALLOWED_COMMANDS

\* C28: no step of validate, validate_complexity, sanitize_latex,
\* contains_dangerous_pattern, extract_commands, is_command_allowed,
\* count_nesting, get_matrix_size, get_blocked_commands or get_allowed_commands,
\* and no change a caller makes to a set these two returned, changes
\* DANGEROUS_COMMANDS, BLOCKED_COMMANDS, ALLOWED_COMMANDS or the three limits
\* of the validator; is_command_allowed answers after such a change what it
\* answers for the sets as loaded.
C28_SharedStateUnchanged ==
    /\ [][UNCHANGED <<dangerous, blocked, allowed,
                      max_length, max_nesting, max_matrix_size>>]_vars
    /\ [](pc = "answered" => result = AllowedAsLoaded(latex_string))

\* 'input' discarded from the set get_blocked_commands returned, and
\* is_command_allowed('input') asked afterwards
C28_Witness ==
    /\ pc = "answered"
    /\ latex_string = <<"i","n","p","u","t">>
    /\ result = FALSE
    /\ "input" \in blocked

\* C29: a call of validate that has ended has the outcome of every earlier call
\* with the same formula and the same limits: it returned the same string, or
\* raised the same rejection with the same message, the disallowed commands
\* listed in the same order.
C29_SameOutcome ==
    pc \in {"returned", "raised"} =>
        \A c \in DOMAIN calls :
            calls[c].latex_string = latex_string =>
                /\ calls[c].pc = pc
                /\ calls[c].result = result
                /\ calls[c].error = error

\* the call has returned a str and raised nothing, or has raised one
\* ValidationError with one reason and returned nothing
OneOutcome ==
    /\ pc = "returned" => error = NoError /\ IsSubsequence(result, latex_string)
    /\ pc = "raised" =>
          /\ result = <<>>
          /\ error.kind \in {"TooLong", "UnsafeContent", "DisallowedCommands",
                              "TooDeeplyNested", "MatrixTooLarge"}

\* C30: every call of validate, and every scan of count_nesting, comes to its
\* end; a call of validate ends with exactly one of a returned string and one
\* ValidationError with one reason; each iteration of the scan moves the index
\* on by one or two and never past the position after the last character, also
\* when the string ends with a backslash.
C30_Terminates ==
    /\ <>(pc \in {"returned", "raised", "count_nesting:return"})
    /\ []OneOutcome
    /\ [][pc = "count_nesting:while" /\ pc' = "count_nesting:while" =>
            /\ scan'.i - scan.i \in {1, 2}
            /\ scan'.i <= Len(latex_string) + 1]_vars

\* the scan of '{\' ended: the backslash at the end had nothing to skip
C30_Witness ==
    /\ pc = "count_nesting:return"
    /\ latex_string = <<"{", "\\">>
    /\ scan.i = 3
    /\ result = 1

====
